---------------------------- MODULE Spec2Model ----------------------------
(***************************************************************************)
(* Model of backend.py: the persistent MCP JSON-RPC client (MCPWebClient), *)
(* the background event loop on which every coroutine runs, the facade     *)
(* get_mcp_response with the Tool Call Layer below it, close() and the     *)
(* shutdown hook, and the MCP subprocess as the environment.               *)
(*                                                                         *)
(* The event loop is cooperative: a coroutine runs without interruption    *)
(* from one suspension point to the next.  The suspension points of the    *)
(* code are: waiting for an asyncio.Lock that is taken, the await of       *)
(* create_subprocess_exec, the await of stdout.readline() and the await of *)
(* process.wait().  Each action below resumes one coroutine and runs it to *)
(* its next suspension point (operator Run).  Loop iterations are not      *)
(* counted: a coroutine that has been woken, the completion of a spawn and *)
(* the arrival of subprocess output are resumed in any order.              *)
(***************************************************************************)
EXTENDS Naturals, Integers, Sequences, FiniteSets, TLC

\* ----------------------------------------------------------------- bounds
\* Number of get_mcp_response / connect invocations in a run.
NumCalls == 3
\* Number of subprocesses that can be spawned in a run.
MaxSpawns == 2

Calls == 1..NumCalls
Procs == 1..MaxSpawns
\* Lock 0 is the module-level _connect_lock; lock p is the _io_lock object
\* that connect() created together with subprocess p.
ConnectLock == 0
LockIds == 0..MaxSpawns

\* Action names a caller may pass to get_mcp_response: a tools/call action,
\* a resources/read action and a name outside the dispatch table.
ActionNames == {"chat", "get_server_info", "bogus"}

\* One line the subprocess may write in reply to a request: a result
\* envelope with a first content item, a result envelope whose content list
\* is empty, an error envelope, or a line that is not JSON.
RespShapes == {"result", "empty", "error", "garbage"}

\* chatbot.py: the Flask threads that call call_mcp_action, the tasks on the
\* background loop (task 0 is initialize_mcp_client, task t the coroutine
\* thread t submitted) and the subprocesses the connect attempts can spawn.
NumThreads == 2

max_retries == 3

Threads == 1..NumThreads

InitTask == 0

WebTasks == {InitTask} \cup Threads

Nobody == -1

WebProcs == 1..max_retries

\* The shapes of a stdout line: a JSON-RPC result, or a line that is not JSON.
WebShapes == {"result", "garbage"}

VARIABLES
  process,      \* _client.process: 0 is None, else the subprocess handle
  request_id,   \* _client.request_id
  io_lock,      \* _client._io_lock: 0 is None, else the lock object
  holder,       \* per lock: the call that holds it, 0 when unlocked
  waiters,      \* per lock: FIFO of calls suspended in acquire()
  pc,           \* per call: the point its coroutine is at
  via,          \* per call: "facade" (get_mcp_response) or "direct" (connect)
  act,          \* per call: the action name passed to get_mcp_response
  kont,         \* per call: what the lock/read it is suspended in belongs to
  lk,           \* per call: the lock object its `async with` evaluated
  rd,           \* per call: the subprocess it awaits a stdout line or the exit of
  cp,           \* per call: the subprocess its connect() spawned
  reqId,        \* per call: the id of the request line it wrote last
  respTo,       \* per call: the request the envelope it returned replied to
  resp,         \* per call: shape of the envelope _send_request returned
  outcome,      \* per call: what the caller got back
  st,           \* per subprocess: "unborn", "running", "dead", "reaped"
  sent,         \* per subprocess: the lines it received on stdin, in order
  answered,     \* per subprocess: how many requests it has answered
  out,          \* per subprocess: the stdout lines the client has not consumed
  eof,          \* per subprocess: stdout EOF has reached the StreamReader
  hs,           \* per subprocess: what its connect() returned
  hsResp,       \* per subprocess: the envelope its initialize request got
  expired,      \* per call: the wait bound passed while the caller was blocked
  stdin_closed, \* per subprocess: the client closed its stdin
  terminated,   \* per subprocess: the client sent it terminate()
  loop,         \* _backend_loop: "running", "stopping" (stop requested), "stopped"
  shutdown,     \* the atexit hook _shutdown: "idle", "waiting", "returned", "raised"
  tool_action,  \* Tool Call Layer on its own: the action name dispatched
  tool_resp,    \* Tool Call Layer on its own: the response _send_request gave
  tool_out,     \* Tool Call Layer on its own: what get_mcp_response returned
  message,      \* parse_message_for_action: its argument
  parsed,       \* parse_message_for_action: what it returned
  trim_in,      \* trim_history: the history passed, as content lengths
  trim_cap,     \* trim_history: max_chars
  trim_out,     \* trim_history: the list it returned
  history,      \* frontend.py: session["history"], as content lengths
  args_in,      \* analyze_symptoms: symptoms, age, gender as passed
  args_backend, \* analyze_symptoms of backend.py: the tool arguments built
  args_chatbot, \* analyze_symptoms of chatbot.py: the tool arguments built
  conversation_history, \* server.py: the global list, as roles
  srv_last,     \* server.py: the tool called last
  srv_ret,      \* server.py: what that tool returned
  model_calls,  \* server.py: how often model.generate_text was invoked
  web_process,  \* chatbot.py: global_client.process, 0 is None
  web_request_id, \* chatbot.py: global_client.request_id
  connected,    \* chatbot.py: global_client.connected
  client_lock,  \* chatbot.py: the thread holding client_lock, 0 when free
  wst,          \* chatbot.py, per subprocess: "unborn", "running", "dead"
  wstop,        \* per subprocess: "no", "stdin_closed" or "terminated" by the client
  wsent,        \* per subprocess: ids of the lines received on stdin (0: notification)
  wanswered,    \* per subprocess: how many requests it has answered
  wout,         \* per subprocess: stdout lines still in the pipe
  wbuf,         \* per subprocess: lines in the StreamReader buffer
  weof,         \* per subprocess: EOF was fed to the StreamReader
  waiter,       \* per subprocess: StreamReader._waiter, the task waiting for data
  whs,          \* per subprocess: connect() returned True for it
  cpc,          \* per task: the point its coroutine is at
  creq,         \* per task: the id of the request it wrote
  cresp,        \* per task: what _send_request gave it
  thr,          \* per thread in call_mcp_action: "idle", "blocked", "returned"
  tret,         \* per thread: what call_mcp_action returned
  connects,     \* initialize_mcp_client: what each connect attempt returned
  init_ret,     \* initialize_mcp_client: its return value, <<>> while running
  close_pc,     \* MCPWebClient.close: "idle", "waiting", "terminated", "done"
  close_rd      \* MCPWebClient.close: the subprocess whose exit it awaits

vars == <<process, request_id, io_lock, holder, waiters, pc, via, act, kont,
          lk, rd, cp, reqId, respTo, resp, outcome, st, sent, answered, out,
          eof, hs, hsResp, expired, stdin_closed, terminated, loop, shutdown,
          tool_action, tool_resp, tool_out, message, parsed, trim_in, trim_cap,
          trim_out, history, args_in, args_backend, args_chatbot,
          conversation_history, srv_last, srv_ret, model_calls,
          web_process, web_request_id, connected, client_lock, wst, wstop, wsent,
          wanswered, wout, wbuf, weof, waiter, whs, cpc, creq, cresp, thr, tret,
          connects, init_ret, close_pc, close_rd>>

\* The variables of the front-end helpers and of the subprocess's tools.
frontVars ==
  <<message, parsed, trim_in, trim_cap, trim_out, history, args_in, args_backend,
    args_chatbot>>

serverVars == <<conversation_history, srv_last, srv_ret, model_calls>>

toolVars == <<tool_action, tool_resp, tool_out>>

\* Everything of chatbot.py's client, its subprocesses and its threads.
webVars ==
  <<web_process, web_request_id, connected, client_lock, wst, wstop, wsent,
    wanswered, wout, wbuf, weof, waiter, whs, cpc, creq, cresp, thr, tret,
    connects, init_ret, close_pc, close_rd>>

\* Everything of backend.py: the client, the loop and the Tool Call Layer.
backendVars ==
  <<process, request_id, io_lock, holder, waiters, pc, via, act, kont, lk, rd, cp,
    reqId, respTo, resp, outcome, st, sent, answered, out, eof, hs, hsResp, expired,
    stdin_closed, terminated, loop, shutdown, toolVars>>

\* The whole state as one record, so that a coroutine segment is a function
\* from state to state.
State ==
  [process |-> process, request_id |-> request_id, io_lock |-> io_lock,
   holder |-> holder, waiters |-> waiters, pc |-> pc, via |-> via,
   act |-> act, kont |-> kont, lk |-> lk, rd |-> rd, cp |-> cp,
   reqId |-> reqId, respTo |-> respTo, resp |-> resp, outcome |-> outcome,
   st |-> st, sent |-> sent, answered |-> answered, out |-> out, eof |-> eof,
   hs |-> hs, hsResp |-> hsResp, expired |-> expired,
   stdin_closed |-> stdin_closed, terminated |-> terminated]

Install(s) ==
  /\ process' = s.process
  /\ request_id' = s.request_id
  /\ io_lock' = s.io_lock
  /\ holder' = s.holder
  /\ waiters' = s.waiters
  /\ pc' = s.pc
  /\ via' = s.via
  /\ act' = s.act
  /\ kont' = s.kont
  /\ lk' = s.lk
  /\ rd' = s.rd
  /\ cp' = s.cp
  /\ reqId' = s.reqId
  /\ respTo' = s.respTo
  /\ resp' = s.resp
  /\ outcome' = s.outcome
  /\ st' = s.st
  /\ sent' = s.sent
  /\ answered' = s.answered
  /\ out' = s.out
  /\ eof' = s.eof
  /\ hs' = s.hs
  /\ hsResp' = s.hsResp
  /\ expired' = s.expired
  /\ stdin_closed' = s.stdin_closed
  /\ terminated' = s.terminated

NoEnvelope == [re |-> 0, shape |-> "-"]

NoOutcome == [raised |-> FALSE, text |-> "-", error |-> "-", cause |-> "-"]

\* MCPWebClient.__init__, the module-level _client and _connect_lock, the
\* loop running, and no subprocess spawned yet.
InitClient ==
  /\ process = 0
  /\ request_id = 0
  /\ io_lock = 0
  /\ holder = [l \in LockIds |-> 0]
  /\ waiters = [l \in LockIds |-> <<>>]
  /\ pc = [t \in Calls |-> "idle"]
  /\ via = [t \in Calls |-> "facade"]
  /\ act = [t \in Calls |-> "-"]
  /\ kont = [t \in Calls |-> "-"]
  /\ lk = [t \in Calls |-> 0]
  /\ rd = [t \in Calls |-> 0]
  /\ cp = [t \in Calls |-> 0]
  /\ reqId = [t \in Calls |-> 0]
  /\ respTo = [t \in Calls |-> 0]
  /\ resp = [t \in Calls |-> "-"]
  /\ outcome = [t \in Calls |-> NoOutcome]
  /\ st = [p \in Procs |-> "unborn"]
  /\ sent = [p \in Procs |-> <<>>]
  /\ answered = [p \in Procs |-> 0]
  /\ out = [p \in Procs |-> <<>>]
  /\ eof = [p \in Procs |-> FALSE]
  /\ hs = [p \in Procs |-> "-"]
  /\ hsResp = [p \in Procs |-> NoEnvelope]
  /\ expired = [t \in Calls |-> FALSE]
  /\ stdin_closed = [p \in Procs |-> FALSE]
  /\ terminated = [p \in Procs |-> FALSE]
  /\ loop = "running"
  /\ shutdown = "idle"

\* No value: the front-end helpers and the tools of the subprocess have not
\* been called.  An optional value is <<>> (None, or no such key) or <<v>>.
NoParse == [action |-> "-", key |-> "-", value |-> <<>>]

NotTrimmed == <<-1>>

NoArgs == [symptoms |-> <<>>, patient_age |-> <<>>, patient_gender |-> <<>>]

InitToolLayer ==
  /\ tool_action = "-"
  /\ tool_resp = "-"
  /\ tool_out = NoOutcome

\* A new session of the front end, with the inputs of its helpers drawn from
\* the given sets.
InitFrontWith(messages, histories, caps, inputs) ==
  /\ message \in messages
  /\ parsed = NoParse
  /\ trim_in \in histories
  /\ trim_cap \in caps
  /\ trim_out = NotTrimmed
  /\ history = <<>>
  /\ args_in \in inputs
  /\ args_backend = NoArgs
  /\ args_chatbot = NoArgs

InitFront ==
  InitFrontWith({<<>>}, {<<>>}, {0}, {[symptoms |-> "", age |-> <<>>, gender |-> <<>>]})

\* server.py after import: conversation_history = []
InitServer ==
  /\ conversation_history = <<>>
  /\ srv_last = "-"
  /\ srv_ret = "-"
  /\ model_calls = 0

\* chatbot.py before start_background_services: no client task has run, no
\* subprocess is spawned, client_lock is free.
NoLine == [kind |-> "-", re |-> 0]

InitWeb ==
  /\ web_process = 0
  /\ web_request_id = 0
  /\ connected = FALSE
  /\ client_lock = 0
  /\ wst = [p \in WebProcs |-> "unborn"]
  /\ wstop = [p \in WebProcs |-> "no"]
  /\ wsent = [p \in WebProcs |-> <<>>]
  /\ wanswered = [p \in WebProcs |-> 0]
  /\ wout = [p \in WebProcs |-> <<>>]
  /\ wbuf = [p \in WebProcs |-> <<>>]
  /\ weof = [p \in WebProcs |-> FALSE]
  /\ waiter = [p \in WebProcs |-> Nobody]
  /\ whs = [p \in WebProcs |-> FALSE]
  /\ cpc = [k \in WebTasks |-> "idle"]
  /\ creq = [k \in WebTasks |-> 0]
  /\ cresp = [k \in WebTasks |-> NoLine]
  /\ thr = [t \in Threads |-> "idle"]
  /\ tret = [t \in Threads |-> "-"]
  /\ connects = <<>>
  /\ init_ret = <<>>
  /\ close_pc = "idle"
  /\ close_rd = 0

Init ==
  /\ InitClient
  /\ InitToolLayer
  /\ InitFront
  /\ InitServer
  /\ InitWeb

\* ------------------------------------------------------------ asyncio.Lock
\* Lock.acquire() returns at once when the lock is unlocked and nobody is
\* queued; otherwise the caller is appended to the FIFO and suspended.
LockFree(s, l) == s.holder[l] = 0 /\ s.waiters[l] = <<>>

\* Lock.release() unlocks and wakes the first waiter; the woken waiter stays
\* at the head of the FIFO until it runs, so nobody can overtake it.
Release(s, l) == [s EXCEPT !.holder[l] = 0]

\* The first waiter of an unlocked lock is the one release() has woken.
Woken(l, t) == holder[l] = 0 /\ waiters[l] # <<>> /\ Head(waiters[l]) = t

TakeWoken(s, l, t) ==
  [s EXCEPT !.holder[l] = t, !.waiters[l] = Tail(s.waiters[l])]

\* process.returncode is None: the loop has not seen the subprocess exit.
ProcessAlive(s) == s.process # 0 /\ s.st[s.process] # "reaped"


\* ------------------------------------------------------------ subprocess
\* The handle create_subprocess_exec returns next: the first unborn one.
NextProc(s) == CHOOSE p \in Procs : s.st[p] = "unborn" /\ \A q \in Procs : q < p => s.st[q] # "unborn"

\* stdin.write + drain of one line on subprocess p: the subprocess receives
\* the line while it runs; bytes written to an exited subprocess are lost.
WriteLine(s, p, line) ==
  IF s.st[p] = "running" THEN [s EXCEPT !.sent[p] = Append(@, line)] ELSE s

\* A complete line the client has not consumed is available on p's stdout.
LineAvailable(s, p) == s.out[p] # <<>>

\* StreamReader allows one waiter: readline() raises RuntimeError when another
\* coroutine is already suspended in readline() on the same stream.  When the
\* other reader's line is already in the StreamReader buffer (inBuffer) its
\* waiter has been released and the new readline() does not raise.
ReaderConflict(s, p, t, inBuffer) ==
  /\ \E u \in Calls : u # t /\ s.pc[u] = "reading" /\ s.rd[u] = p
  /\ ~((LineAvailable(s, p) \/ s.eof[p]) /\ inBuffer)

\* ------------------------------------------------------- Tool Call Layer
None == "None"

Pair(text, error, cause) == [raised |-> FALSE, text |-> text, error |-> error, cause |-> cause]

Raised(cause) == [raised |-> TRUE, text |-> "-", error |-> "-", cause |-> cause]

\* What `await self._send_request(...)` gives a wrapper: an exception
\* (raises: "transport" the pipe failed, "no_response" the read gave no
\* bytes, "malformed" the line was not JSON), or the decoded envelope.  Of the
\* envelope the wrappers look at the members result and error, at the lists
\* content and contents of the result, and at the text of their first item.
\*   list:  "absent" no such key, "empty" [], "text" [{"text": "X"}],
\*          "null" [{"text": null}], "notext" [{}]
\*   error: "absent", "message" {"message": "boom"}, "nomessage" {},
\*          "null" {"message": null}
Lists == {"absent", "empty", "text", "null", "notext"}

ErrorMembers == {"absent", "message", "nomessage", "null"}

Returned(has_result, content, contents, error) ==
  [raises |-> "-", has_result |-> has_result, content |-> content,
   contents |-> contents, error |-> error]

Raises(cause) ==
  [raises |-> cause, has_result |-> FALSE, content |-> "absent",
   contents |-> "absent", error |-> "absent"]

\* The envelopes of JSON-RPC 2.0 (a result object or an error object, never
\* both), the envelope with neither, and the exceptions of _send_request.
Responses ==
  {Returned(TRUE, c, cs, "absent") : c \in Lists, cs \in Lists}
    \cup {Returned(FALSE, "absent", "absent", e) : e \in ErrorMembers}
    \cup {Raises(c) : c \in {"transport", "no_response", "malformed"}}

\* return resp["result"]["content"][0]["text"], None  (lines 149, 167, 178,
\* 187); an empty list raises IndexError and an item without text KeyError,
\* both caught by the wrapper's except, whose message prefix is onError.
ContentText(r, onError) ==
  CASE r.content = "text" -> Pair("text", None, "-")
    [] r.content = "null" -> Pair(None, None, "-")
    [] OTHER -> Pair(None, onError, "malformed")

\* resp["error"].get("message", "Unknown error")
ErrorMessage(r) ==
  CASE r.error = "message" -> "message"
    [] r.error = "nomessage" -> "Unknown error"
    [] OTHER -> None

\* Faulty variant: chat_with_watsonx without the error branch of lines 150-151.
chat_with_watsonx_noerror(r) ==
  IF r.raises # "-" THEN Pair(None, "Connection error", r.raises)
  ELSE IF r.has_result /\ r.content # "absent" THEN ContentText(r, "Connection error")
  ELSE Pair(None, "Unexpected response format", "protocol")

\* MCPWebClient.chat_with_watsonx, lines 139-154
chat_with_watsonx(r) ==
  IF r.raises # "-" THEN Pair(None, "Connection error", r.raises)
  ELSE IF r.has_result /\ r.content # "absent" THEN ContentText(r, "Connection error")
  ELSE IF r.error # "absent" THEN Pair(None, ErrorMessage(r), "protocol")
  ELSE Pair(None, "Unexpected response format", "protocol")

\* MCPWebClient.analyze_symptoms, lines 164-172
analyze_symptoms(r) ==
  IF r.raises # "-" THEN Pair(None, "Connection error", r.raises)
  ELSE IF r.has_result /\ r.content # "absent" THEN ContentText(r, "Connection error")
  ELSE IF r.error # "absent" THEN Pair(None, ErrorMessage(r), "protocol")
  ELSE Pair(None, "Unexpected response format", "protocol")

\* MCPWebClient.clear_history, lines 175-181
clear_history(r) ==
  IF r.raises # "-" THEN Pair(None, "Error clearing history", r.raises)
  ELSE IF r.has_result /\ r.content # "absent" THEN ContentText(r, "Error clearing history")
  ELSE Pair("Conversation history cleared.", None, "-")

\* MCPWebClient.get_summary, lines 184-190
get_summary(r) ==
  IF r.raises # "-" THEN Pair(None, "Error getting summary", r.raises)
  ELSE IF r.has_result /\ r.content # "absent" THEN ContentText(r, "Error getting summary")
  ELSE Pair("No conversation to summarise.", None, "-")

\* MCPWebClient.read_resource, lines 195-201: (resource, None) when the
\* envelope has a result, else (None, error).
read_resource(r) ==
  IF r.raises # "-" THEN [found |-> FALSE, err |-> "Error reading resource", cause |-> r.raises]
  ELSE IF r.has_result THEN [found |-> TRUE, err |-> None, cause |-> "-"]
  ELSE [found |-> FALSE, err |-> "Resource not found", cause |-> "protocol"]

\* lines 259-264 and 268-273 of _async_dispatch: the error of read_resource,
\* or resource.get("contents", [{}])[0].get("text", default).  [0] of an empty
\* list raises IndexError in _async_dispatch, outside every try of the Tool
\* Call Layer.
ResourceText(r, res, default) ==
  IF res.err # None THEN Pair(None, res.err, res.cause)
  ELSE CASE r.contents = "empty" -> Raised("dispatch")
         [] r.contents = "text" -> Pair("text", None, "-")
         [] r.contents = "null" -> Pair(None, None, "-")
         [] OTHER -> Pair(default, None, "-")

\* the get_greeting branch of _async_dispatch, lines 256-264
get_greeting(r) == ResourceText(r, read_resource(r), "Hello!")

\* the get_server_info branch of _async_dispatch, lines 266-273
get_server_info(r) == ResourceText(r, read_resource(r), "No server info")

\* Action names: the six of the dispatch table and one outside it.
AllActions ==
  {"chat", "analyze_symptoms", "clear_history", "get_summary", "get_greeting",
   "get_server_info", "bogus"}

\* _async_dispatch after _ensure_connected, lines 236-275: r is what the one
\* request of the action's wrapper gave.
dispatch_action(a, r) ==
  CASE a = "chat" -> chat_with_watsonx(r)
    [] a = "analyze_symptoms" -> analyze_symptoms(r)
    [] a = "clear_history" -> clear_history(r)
    [] a = "get_summary" -> get_summary(r)
    [] a = "get_greeting" -> get_greeting(r)
    [] a = "get_server_info" -> get_server_info(r)
    [] OTHER -> Pair(None, "Unknown action", "-")

\* Faulty variant: get_mcp_response without its try/except.
get_mcp_response_raises(o) ==
  o

\* get_mcp_response, lines 284-291: what the coroutine returned is returned;
\* whatever it raised is caught and converted into an error outcome.
get_mcp_response(o) ==
  IF o.raised THEN Pair(None, "Internal backend error", o.cause) ELSE o

\* The coroutine of call t ends with result o (a pair, or an exception).
Finish(s, t, o) ==
  [s EXCEPT !.pc[t] = "done",
            !.outcome[t] = IF s.via[t] = "facade" THEN get_mcp_response(o) ELSE o,
            !.kont[t] = "-", !.lk[t] = 0, !.rd[t] = 0, !.resp[t] = "-"]

\* --------------------------------------------------- _ensure_connected
\* Faulty variant: _ensure_connected without the async with _connect_lock.
ensure_connected_nolock(s, t) ==
  [s EXCEPT !.pc[t] = "ec_check"]

\* line 224: async with _connect_lock
ensure_connected_acquire(s, t) ==
  IF LockFree(s, ConnectLock)
  THEN [s EXCEPT !.holder[ConnectLock] = t, !.pc[t] = "ec_check"]
  ELSE [s EXCEPT !.waiters[ConnectLock] = Append(@, t), !.pc[t] = "wait_connect"]

\* Faulty variant: only the presence of a process is tested, not its
\* returncode.
ensure_connected_check_once(s, t) ==
  IF s.process # 0 THEN [s EXCEPT !.pc[t] = "ec_return"]
  ELSE [s EXCEPT !.pc[t] = "connect"]

\* lines 225-227: return if the process is alive, else call connect
ensure_connected_check(s, t) ==
  IF ProcessAlive(s) THEN [s EXCEPT !.pc[t] = "ec_return"]
  ELSE [s EXCEPT !.pc[t] = "connect"]

\* leaving the async with normally, then _async_dispatch goes on
ensure_connected_return(s, t) ==
  [Release(s, ConnectLock) EXCEPT !.pc[t] = "dispatch"]

\* line 229 (connect returned False) or an exception out of connect: the
\* async with releases _connect_lock and the exception leaves _async_dispatch.
ensure_connected_raise(s, t, cause) ==
  Finish(Release(s, ConnectLock), t, Raised(cause))

\* ------------------------------------------------- MCPWebClient.connect
\* What the caller of connect does with its return value.
connect_returns(s, t, value, cause) ==
  IF s.via[t] = "facade"
  THEN (IF value THEN [s EXCEPT !.pc[t] = "ec_return"]
        ELSE ensure_connected_raise(s, t, cause))
  ELSE Finish(s, t, Pair(IF value THEN "True" ELSE "False", None, cause))

\* Faulty variant: connect without the check of lines 42-44.
connect_always_spawns(s, t) ==
  [s EXCEPT !.pc[t] = "spawning"]

\* lines 42-47: return True when a subprocess is alive, else spawn
connect_enter(s, t) ==
  IF ProcessAlive(s) THEN connect_returns(s, t, TRUE, "-")
  ELSE [s EXCEPT !.pc[t] = "spawning"]

\* lines 47-56: the spawn completed; process and _io_lock are replaced and
\* the handshake starts with the initialize request.
connect_spawned(s, t) ==
  LET p == NextProc(s) IN
  [s EXCEPT !.process = p, !.io_lock = p, !.st[p] = "running",
            !.cp[t] = p, !.kont[t] = "hs", !.pc[t] = "sr_acquire"]

\* line 65: the handshake completed without an exception
connect_done(s, t) ==
  connect_returns([s EXCEPT !.hs[s.cp[t]] = "ok"], t, TRUE, "-")

\* lines 66-68: any exception of the handshake
connect_failed(s, t) ==
  connect_returns([s EXCEPT !.hs[s.cp[t]] = "failed"], t, FALSE, "handshake")

\* --------------------------------------------------- MCPWebClient.close
\* close returns None.
Closed == Pair(None, None, "-")

\* Faulty variant: close without the check of lines 71-72.
close_enter_unchecked(s, t) ==
  [s EXCEPT !.pc[t] = "close_stdin"]

\* lines 71-72: nothing to do on a client that has no process
close_enter(s, t) ==
  IF s.process = 0 THEN Finish(s, t, Closed)
  ELSE [s EXCEPT !.pc[t] = "close_stdin"]

\* lines 74-77: close the input stream, then wait for the exit with a bound.
\* process.wait() returns at once when returncode is set.  (An attribute of
\* None raises AttributeError, which the except of line 78 does not catch.)
close_stdin(s, t) ==
  LET p == s.process IN
  IF p = 0 THEN Finish(s, t, Raised("attribute"))
  ELSE LET s1 == [s EXCEPT !.stdin_closed[p] = TRUE] IN
       IF s.st[p] = "reaped" THEN Finish(s1, t, Closed)
       ELSE [s1 EXCEPT !.pc[t] = "close_wait", !.rd[t] = p]

\* Faulty variant: after the bound, terminate() and return without waiting.
close_timeout_returns(s, t) ==
  Finish([s EXCEPT !.terminated[s.process] = TRUE], t, Closed)

\* lines 78-81: the bound expired; terminate() and wait without a bound
close_timeout(s, t) ==
  LET p == s.process
      s1 == [s EXCEPT !.terminated[p] = TRUE]
  IN IF s.st[p] = "reaped" THEN Finish(s1, t, Closed)
     ELSE [s1 EXCEPT !.pc[t] = "close_wait2", !.rd[t] = p]

\* process.wait() returned: close returns
close_waited(s, t) ==
  Finish(s, t, Closed)

\* --------------------------- _send_request / _send_notification
\* lines 90 and 121: async with self._io_lock, on the lock object the
\* attribute names at this moment.
send_acquire(s, t) ==
  LET l == s.io_lock IN
  IF LockFree(s, l)
  THEN [s EXCEPT !.holder[l] = t, !.lk[t] = l,
                 !.pc[t] = IF s.kont[t] = "notify" THEN "notify_write" ELSE "sr_write"]
  ELSE [s EXCEPT !.waiters[l] = Append(@, t), !.lk[t] = l, !.pc[t] = "wait_io"]

Method(s, t) ==
  CASE s.kont[t] = "hs" -> "initialize"
    [] s.act[t] = "chat" -> "tools/call"
    [] OTHER -> "resources/read"

\* lines 91-107: allocate the id, write the request line to the subprocess
\* self.process names now, and start reading from its stdout.
send_request_write(s, t, ch) ==
  LET id == s.request_id + 1
      p == s.process
      s1 == [s EXCEPT !.request_id = id, !.reqId[t] = id, !.respTo[t] = 0]
      s2 == WriteLine(s1, p, [method |-> Method(s, t), id |-> id])
  IN IF s.st[p] # "running" /\ ch.brokenPipe
     THEN [s1 EXCEPT !.resp[t] = "transport", !.pc[t] = "sr_raise"]
     ELSE IF ReaderConflict(s2, p, t, ch.inBuffer)
          THEN [s2 EXCEPT !.resp[t] = "transport", !.pc[t] = "sr_raise"]
          ELSE [s2 EXCEPT !.pc[t] = "reading", !.rd[t] = p]

\* lines 107-113: a line arrived; json.loads raises on a line that is not JSON
send_request_readline(s, t) ==
  LET p == s.rd[t]
      r == Head(s.out[p])
      s1 == [s EXCEPT !.out[p] = Tail(@), !.rd[t] = 0]
  IN IF r.shape = "garbage"
     THEN [s1 EXCEPT !.resp[t] = "malformed", !.pc[t] = "sr_raise"]
     ELSE [s1 EXCEPT !.resp[t] = r.shape, !.respTo[t] = r.re, !.pc[t] = "sr_return",
                     !.hsResp[s.cp[t]] = IF s.kont[t] = "hs" THEN r ELSE @]

\* Faulty variant: a read of no bytes is handed back as a response.
send_request_eof_returns(s, t) ==
  [s EXCEPT !.rd[t] = 0, !.resp[t] = "result", !.pc[t] = "sr_return"]

\* lines 108-109: readline returned b"", RuntimeError("No response from MCP
\* server") is raised
send_request_eof(s, t) ==
  [s EXCEPT !.rd[t] = 0, !.resp[t] = "no_response", !.pc[t] = "sr_raise"]

\* Faulty variant: an exception leaves _send_request with the lock still held.
send_raise_keeps_lock(s, t) ==
  IF s.kont[t] = "tool" THEN [s EXCEPT !.lk[t] = 0, !.pc[t] = "tool_ret"]
  ELSE [s EXCEPT !.lk[t] = 0, !.pc[t] = "connect_failed"]

\* an exception leaves the async with: the lock is released
send_raise(s, t) ==
  LET s1 == [Release(s, s.lk[t]) EXCEPT !.lk[t] = 0] IN
  IF s.kont[t] = "tool" THEN [s1 EXCEPT !.pc[t] = "tool_ret"]
  ELSE [s1 EXCEPT !.pc[t] = "connect_failed"]

\* line 113: return resp, leaving the async with
send_request_return(s, t) ==
  LET s1 == [Release(s, s.lk[t]) EXCEPT !.lk[t] = 0] IN
  IF s.kont[t] = "tool" THEN [s1 EXCEPT !.pc[t] = "tool_ret"]
  ELSE [s1 EXCEPT !.kont[t] = "notify", !.pc[t] = "sr_acquire"]

\* lines 122-126: write the notification line; no id, no read
send_notification_write(s, t, ch) ==
  LET p == s.process IN
  IF s.st[p] # "running" /\ ch.brokenPipe
  THEN [s EXCEPT !.resp[t] = "transport", !.pc[t] = "sr_raise"]
  ELSE [Release(WriteLine(s, p, [method |-> "notifications/initialized", id |-> 0]), s.lk[t])
          EXCEPT !.lk[t] = 0, !.pc[t] = "connect_done"]

\* ------------------------------------------------------ _async_dispatch
\* Faulty variant: a request is sent for every action name.
async_dispatch_sends(s, t) ==
  [s EXCEPT !.kont[t] = "tool", !.pc[t] = "sr_acquire"]

\* lines 236-275 after _ensure_connected returned
async_dispatch(s, t) ==
  IF s.act[t] \in {"chat", "get_server_info"}
  THEN [s EXCEPT !.kont[t] = "tool", !.pc[t] = "sr_acquire"]
  ELSE Finish(s, t, Pair(None, "Unknown action", "-"))

\* What the response shape e of the subprocess model, or the exception e of
\* _send_request, is to a wrapper.
Response(e) ==
  CASE e = "result" -> Returned(TRUE, "text", "text", "absent")
    [] e = "empty" -> Returned(TRUE, "empty", "empty", "absent")
    [] e = "error" -> Returned(FALSE, "absent", "absent", "message")
    [] OTHER -> Raises(e)

ToolOutcome(a, e) == dispatch_action(a, Response(e))

\* ------------------------------------------------------------ event loop
Blocked ==
  {"idle", "wait_connect", "spawning", "wait_io", "reading", "close_wait",
   "close_wait2", "done"}

Step(s, t, ch) ==
  CASE s.pc[t] = "ec_acquire" -> ensure_connected_acquire(s, t)
    [] s.pc[t] = "ec_check" -> ensure_connected_check(s, t)
    [] s.pc[t] = "ec_return" -> ensure_connected_return(s, t)
    [] s.pc[t] = "connect" -> connect_enter(s, t)
    [] s.pc[t] = "connect_done" -> connect_done(s, t)
    [] s.pc[t] = "connect_failed" -> connect_failed(s, t)
    [] s.pc[t] = "sr_acquire" -> send_acquire(s, t)
    [] s.pc[t] = "sr_write" -> send_request_write(s, t, ch)
    [] s.pc[t] = "sr_raise" -> send_raise(s, t)
    [] s.pc[t] = "sr_return" -> send_request_return(s, t)
    [] s.pc[t] = "notify_write" -> send_notification_write(s, t, ch)
    [] s.pc[t] = "dispatch" -> async_dispatch(s, t)
    [] s.pc[t] = "tool_ret" -> Finish(s, t, ToolOutcome(s.act[t], s.resp[t]))
    [] s.pc[t] = "close_enter" -> close_enter(s, t)
    [] s.pc[t] = "close_stdin" -> close_stdin(s, t)

\* Run coroutine t until it suspends or ends.
RECURSIVE Run(_, _, _)
Run(s, t, ch) == IF s.pc[t] \in Blocked THEN s ELSE Run(Step(s, t, ch), t, ch)

\* The outcomes of the races the loop does not decide: whether a write to an
\* exited subprocess raises, and whether a line is already in the buffer.
Choices(s) ==
  [brokenPipe : IF \E p \in Procs : s.st[p] \in {"dead", "reaped"} THEN BOOLEAN ELSE {FALSE},
   inBuffer : IF \E u \in Calls : s.pc[u] = "reading" THEN BOOLEAN ELSE {FALSE}]

\* The variables no coroutine of the loop assigns.
outside == <<loop, shutdown, toolVars, frontVars, serverVars, webVars>>

\* The loop resumes coroutine t; a stopped loop resumes nothing.
Resumed(s, t) == loop # "stopped" /\ \E ch \in Choices(s) : Install(Run(s, t, ch))

Resume(s, t) == Resumed(s, t) /\ UNCHANGED outside

\* ----------------------------------------------------------------- actions
\* A caller thread calls get_mcp_response(a): the coroutine _async_dispatch
\* starts on the loop and the caller blocks in fut.result().
Call(t, a) ==
  /\ pc[t] = "idle"
  /\ \A u \in Calls : u < t => pc[u] # "idle"
  /\ Resume([State EXCEPT !.pc[t] = "ec_acquire", !.via[t] = "facade", !.act[t] = a], t)

\* release() of _connect_lock woke this coroutine
ConnectWakeReady(t) == pc[t] = "wait_connect" /\ Woken(ConnectLock, t)

ConnectWake(t) ==
  /\ ConnectWakeReady(t)
  /\ Resume([TakeWoken(State, ConnectLock, t) EXCEPT !.pc[t] = "ec_check"], t)

\* create_subprocess_exec returned a process
SpawnDoneReady(t) == pc[t] = "spawning" /\ \E p \in Procs : st[p] = "unborn"

SpawnDone(t) ==
  /\ SpawnDoneReady(t)
  /\ Resume(connect_spawned(State, t), t)

\* create_subprocess_exec raised (line 47 is outside connect's try)
SpawnFailReady(t) == pc[t] = "spawning"

SpawnFail(t) ==
  /\ SpawnFailReady(t)
  /\ Resume(IF via[t] = "facade" THEN ensure_connected_raise(State, t, "spawn")
            ELSE Finish(State, t, Raised("spawn")), t)

\* release() of the _io_lock this coroutine queued on woke it
IoWakeReady(t) == pc[t] = "wait_io" /\ Woken(lk[t], t)

IoWake(t) ==
  /\ IoWakeReady(t)
  /\ Resume([TakeWoken(State, lk[t], t) EXCEPT
               !.pc[t] = IF kont[t] = "notify" THEN "notify_write" ELSE "sr_write"], t)

\* readline() returned a line
ReadLineReady(t) == pc[t] = "reading" /\ LineAvailable(State, rd[t])

ReadLine(t) ==
  /\ ReadLineReady(t)
  /\ Resume(send_request_readline(State, t), t)

\* readline() returned b"": EOF and nothing left to read
ReadEofReady(t) == pc[t] = "reading" /\ eof[rd[t]] /\ ~LineAvailable(State, rd[t])

ReadEof(t) ==
  /\ ReadEofReady(t)
  /\ Resume(send_request_eof(State, t), t)

\* ---- the subprocess (environment)
\* The id-carrying lines subprocess p received, in order.
Requests(p) == SelectSeq(sent[p], LAMBDA m : m.id # 0)

\* The reply shapes of a request: the result of initialize has no content
\* list, so "empty" is a shape of tools/call and resources/read replies only.
ShapesFor(m) == IF m.method = "initialize" THEN RespShapes \ {"empty"} ELSE RespShapes

\* The subprocess answers its oldest unanswered request with one line.
ServeReady(p) == st[p] = "running" /\ answered[p] < Len(Requests(p))

Serve(p, shape) ==
  /\ ServeReady(p)
  /\ shape \in ShapesFor(Requests(p)[answered[p] + 1])
  /\ answered' = [answered EXCEPT ![p] = @ + 1]
  /\ out' = [out EXCEPT ![p] = Append(@, [re |-> Requests(p)[answered[p] + 1].id, shape |-> shape])]
  /\ UNCHANGED <<process, request_id, io_lock, holder, waiters, pc, via, act, kont,
                 lk, rd, cp, reqId, respTo, resp, outcome, st, sent, eof, hs, hsResp, expired>>
  /\ UNCHANGED <<stdin_closed, terminated, loop, shutdown, toolVars, frontVars, serverVars, webVars>>

\* The subprocess exits (the last one the model can spawn keeps running).
Exit(p) ==
  /\ st[p] = "running"
  /\ p < MaxSpawns
  /\ st' = [st EXCEPT ![p] = "dead"]
  /\ UNCHANGED <<process, request_id, io_lock, holder, waiters, pc, via, act, kont,
                 lk, rd, cp, reqId, respTo, resp, outcome, sent, answered, out, eof, hs,
                 hsResp, expired>>
  /\ UNCHANGED <<stdin_closed, terminated, loop, shutdown, toolVars, frontVars, serverVars, webVars>>

\* The child watcher reports the exit to the loop: returncode is set.
ReapReady(p) == st[p] = "dead"

Reap(p) ==
  /\ ReapReady(p)
  /\ st' = [st EXCEPT ![p] = "reaped"]
  /\ UNCHANGED <<process, request_id, io_lock, holder, waiters, pc, via, act, kont,
                 lk, rd, cp, reqId, respTo, resp, outcome, sent, answered, out, eof, hs,
                 hsResp, expired>>
  /\ UNCHANGED <<stdin_closed, terminated, loop, shutdown, toolVars, frontVars, serverVars, webVars>>

\* The loop sees the exited subprocess's stdout pipe closed.
EofReady(p) == st[p] \in {"dead", "reaped"} /\ ~eof[p]

Eof(p) ==
  /\ EofReady(p)
  /\ eof' = [eof EXCEPT ![p] = TRUE]
  /\ UNCHANGED <<process, request_id, io_lock, holder, waiters, pc, via, act, kont,
                 lk, rd, cp, reqId, respTo, resp, outcome, st, sent, answered, out, hs,
                 hsResp, expired>>
  /\ UNCHANGED <<stdin_closed, terminated, loop, shutdown, toolVars, frontVars, serverVars, webVars>>

\* A test or embedding program awaits _client.connect(command) itself, one
\* call after the other.
ConnectCall(t) ==
  /\ pc[t] = "idle"
  /\ \A u \in Calls : u < t => pc[u] = "done"
  /\ Resume([State EXCEPT !.pc[t] = "connect", !.via[t] = "direct", !.act[t] = "connect"], t)

\* The wait bound of the facade passes while the caller of call t is still
\* blocked in fut.result().  get_mcp_response passes no timeout, so nothing
\* happens to the caller.
Elapse(t) ==
  /\ pc[t] \notin {"idle", "done"}
  /\ via[t] = "facade"
  /\ ~expired[t]
  /\ expired' = [expired EXCEPT ![t] = TRUE]
  /\ UNCHANGED <<process, request_id, io_lock, holder, waiters, pc, via, act, kont,
                 lk, rd, cp, reqId, respTo, resp, outcome, st, sent, answered, out, eof,
                 hs, hsResp>>
  /\ UNCHANGED <<stdin_closed, terminated, loop, shutdown, toolVars, frontVars, serverVars, webVars>>

\* ---- close and the shutdown hook
\* A test or embedding program awaits _client.close() itself.
CloseCall(t) ==
  /\ pc[t] = "idle"
  /\ \A u \in Calls : u < t => pc[u] = "done"
  /\ Resume([State EXCEPT !.pc[t] = "close_enter", !.via[t] = "direct", !.act[t] = "close"], t)

\* The exit of the awaited subprocess has been seen: process.wait() returns.
CloseWaitDone(t) ==
  /\ pc[t] \in {"close_wait", "close_wait2"}
  /\ st[rd[t]] = "reaped"
  /\ Resume(close_waited(State, t), t)

\* wait_for's bound of 5 expires before the exit has been seen.
CloseTimeout(t) ==
  /\ pc[t] = "close_wait"
  /\ st[rd[t]] # "reaped"
  /\ Resume(close_timeout(State, t), t)

\* The subprocess ends because its stdin was closed or it was terminated.
Quit(p) ==
  /\ st[p] = "running"
  /\ stdin_closed[p] \/ terminated[p]
  /\ st' = [st EXCEPT ![p] = "dead"]
  /\ UNCHANGED <<process, request_id, io_lock, holder, waiters, pc, via, act, kont,
                 lk, rd, cp, reqId, respTo, resp, outcome, sent, answered, out, eof, hs,
                 hsResp, expired>>
  /\ UNCHANGED <<stdin_closed, terminated, loop, shutdown, toolVars, frontVars, serverVars, webVars>>

\* Faulty variant: _shutdown that stops the loop inside the try, after the
\* wait on close.
shutdown_finish_in_try(result) ==
  [hook |-> "returned", stop |-> result = "closed"]

\* _shutdown, lines 328-332, once the wait on close ended: result is
\* "closed" (fut.result returned), "raised" (close raised) or "expired" (the
\* wait of 3 ended first).  Both exceptions are caught and logged by
\* `except Exception`; the finally requests the loop stop.
shutdown_finish(result) ==
  [hook |-> "returned", stop |-> TRUE]

\* The atexit hook starts: lines 326-328 submit _client.close() to the loop
\* and block in fut.result(timeout=3).
Shutdown(t) ==
  /\ shutdown = "idle"
  /\ pc[t] = "idle"
  /\ \A u \in Calls : u < t => pc[u] = "done"
  /\ Resumed([State EXCEPT !.pc[t] = "close_enter", !.via[t] = "shutdown", !.act[t] = "close"], t)
  /\ shutdown' = "waiting"
  /\ UNCHANGED <<loop, toolVars, frontVars, serverVars, webVars>>

\* What ends the wait of the hook: the close coroutine ended, or the bound.
HookEnds(result) ==
  LET f == shutdown_finish(result) IN
  /\ shutdown' = f.hook
  /\ loop' = IF f.stop /\ loop = "running" THEN "stopping" ELSE loop
  /\ UNCHANGED <<process, request_id, io_lock, holder, waiters, pc, via, act, kont,
                 lk, rd, cp, reqId, respTo, resp, outcome, st, sent, answered, out, eof,
                 hs, hsResp, expired, stdin_closed, terminated, toolVars, frontVars,
                 serverVars, webVars>>

\* fut.result(timeout=3) returned or re-raised what close raised.
ShutdownResult ==
  /\ shutdown = "waiting"
  /\ \E t \in Calls :
       /\ via[t] = "shutdown" /\ pc[t] = "done"
       /\ HookEnds(IF outcome[t].raised THEN "raised" ELSE "closed")

\* fut.result(timeout=3) raised TimeoutError: close has not ended.
ShutdownExpire ==
  /\ shutdown = "waiting"
  /\ \E t \in Calls : via[t] = "shutdown" /\ pc[t] # "done"
  /\ HookEnds("expired")

\* The loop runs the stop callback: run_forever returns.
LoopStop ==
  /\ loop = "stopping"
  /\ loop' = "stopped"
  /\ UNCHANGED <<process, request_id, io_lock, holder, waiters, pc, via, act, kont,
                 lk, rd, cp, reqId, respTo, resp, outcome, st, sent, answered, out, eof,
                 hs, hsResp, expired, stdin_closed, terminated, shutdown, toolVars,
                 frontVars, serverVars, webVars>>

Next ==
  \/ \E t \in Calls, a \in ActionNames : Call(t, a)
  \/ \E t \in Calls : ConnectWake(t)
  \/ \E t \in Calls : SpawnDone(t)
  \/ \E t \in Calls : SpawnFail(t)
  \/ \E t \in Calls : IoWake(t)
  \/ \E t \in Calls : ReadLine(t)
  \/ \E t \in Calls : ReadEof(t)
  \/ \E p \in Procs, shape \in RespShapes : Serve(p, shape)
  \/ \E p \in Procs : Exit(p)
  \/ \E p \in Procs : Reap(p)
  \/ \E p \in Procs : Eof(p)

Spec == Init /\ [][Next]_vars

\* The facade with what the loop, the operating system and a subprocess that
\* answers every request guarantee: a coroutine that can run is run, a spawn
\* ends, a request the subprocess received is answered, and the exit of a
\* subprocess reaches the loop as returncode and as EOF on its stdout.
\* Nothing obliges a caller to call or a subprocess to exit.
Progress ==
  \/ \E t \in Calls : ConnectWake(t) \/ IoWake(t) \/ SpawnDone(t) \/ SpawnFail(t)
  \/ \E t \in Calls : ReadLine(t) \/ ReadEof(t)
  \/ \E p \in Procs, shape \in RespShapes : Serve(p, shape)
  \/ \E p \in Procs : Reap(p) \/ Eof(p)

\* Progress is enabled exactly when the guard of one of its actions holds: a
\* resumed coroutine always has a next suspension point, and an answer always
\* has a shape.
CanProgress ==
  \/ /\ loop # "stopped"
     /\ \E t \in Calls :
          \/ ConnectWakeReady(t) \/ IoWakeReady(t) \/ SpawnDoneReady(t)
          \/ SpawnFailReady(t) \/ ReadLineReady(t) \/ ReadEofReady(t)
  \/ \E p \in Procs : ServeReady(p) \/ ReapReady(p) \/ EofReady(p)

\* WF_vars(Progress), with ENABLED <<Progress>>_vars written as CanProgress.
Fairness == []<>(~CanProgress) \/ []<><<Progress>>_vars

SpecLive == Init /\ [][Next]_vars /\ Fairness

\* connect() driven directly, call after call, against the same subprocess
\* environment.
NextConnect ==
  \/ \E t \in Calls : ConnectCall(t)
  \/ \E t \in Calls : SpawnDone(t)
  \/ \E t \in Calls : SpawnFail(t)
  \/ \E t \in Calls : ReadLine(t)
  \/ \E t \in Calls : ReadEof(t)
  \/ \E p \in Procs, shape \in RespShapes : Serve(p, shape)
  \/ \E p \in Procs : Exit(p)
  \/ \E p \in Procs : Reap(p)
  \/ \E p \in Procs : Eof(p)

SpecConnect == Init /\ [][NextConnect]_vars

\* The facade against a subprocess that stays up but may answer late or
\* never, with the passing of the wait bound observed per call.
NextTimed ==
  \/ \E t \in Calls, a \in ActionNames : Call(t, a)
  \/ \E t \in Calls : ConnectWake(t)
  \/ \E t \in Calls : SpawnDone(t)
  \/ \E t \in Calls : IoWake(t)
  \/ \E t \in Calls : ReadLine(t)
  \/ \E p \in Procs, shape \in RespShapes : Serve(p, shape)
  \/ \E t \in Calls : Elapse(t)

SpecTimed == Init /\ [][NextTimed]_vars

\* connect() and close() driven directly, call after call, and the shutdown
\* hook, against the same subprocess environment.
NextClose ==
  \/ \E t \in Calls : ConnectCall(t)
  \/ \E t \in Calls : CloseCall(t)
  \/ \E t \in Calls : SpawnDone(t)
  \/ \E t \in Calls : SpawnFail(t)
  \/ \E t \in Calls : ReadLine(t)
  \/ \E t \in Calls : ReadEof(t)
  \/ \E t \in Calls : CloseWaitDone(t)
  \/ \E t \in Calls : CloseTimeout(t)
  \/ \E t \in Calls : Shutdown(t)
  \/ ShutdownResult
  \/ ShutdownExpire
  \/ LoopStop
  \/ \E p \in Procs, shape \in RespShapes : Serve(p, shape)
  \/ \E p \in Procs : Exit(p)
  \/ \E p \in Procs : Quit(p)
  \/ \E p \in Procs : Reap(p)
  \/ \E p \in Procs : Eof(p)

SpecClose == Init /\ [][NextClose]_vars

\* ---- the Tool Call Layer on its own
\* Every action name with everything _send_request can give its wrapper.
InitTools ==
  /\ InitClient
  /\ tool_action \in AllActions
  /\ tool_resp \in Responses
  /\ tool_out = NoOutcome
  /\ InitFront
  /\ InitServer
  /\ InitWeb

\* get_mcp_response(tool_action) on a connected client whose one request is
\* answered with tool_resp: the outcome the caller gets.
Invoke ==
  /\ tool_out = NoOutcome
  /\ tool_out' = get_mcp_response(dispatch_action(tool_action, tool_resp))
  /\ UNCHANGED <<process, request_id, io_lock, holder, waiters, pc, via, act, kont,
                 lk, rd, cp, reqId, respTo, resp, outcome, st, sent, answered, out, eof,
                 hs, hsResp, expired, stdin_closed, terminated, loop, shutdown,
                 tool_action, tool_resp, frontVars, serverVars, webVars>>

NextTools == Invoke

SpecTools == InitTools /\ [][NextTools]_vars


\* ------------------------------------------------------------ properties
Spawned == {p \in Procs : st[p] # "unborn"}

Running == {p \in Procs : st[p] = "running"}

ToolMethods == {"tools/call", "resources/read"}

Positions(p, methods) == {i \in 1..Len(sent[p]) : sent[p][i].method \in methods}

\* Call t got past _ensure_connected without an exception.
PastConnect(t) ==
  /\ via[t] = "facade"
  /\ \/ pc[t] \in {"wait_io", "reading"} /\ kont[t] = "tool"
     \/ pc[t] = "done" /\ outcome[t].cause \notin {"spawn", "handshake"}

\* C1: at most one request is in flight on a subprocess's pipes: while a
\* call's request is written and its response not yet read, no other line is
\* written to that subprocess, and no two calls wait on the same stdout.
C1_SingleFlight ==
  /\ [](\A t, u \in Calls :
          (t # u /\ pc[t] = "reading" /\ pc[u] = "reading") => rd[t] # rd[u])
  /\ [][\A t \in Calls :
          (pc[t] = "reading" /\ pc'[t] = "reading" /\ rd'[t] = rd[t] /\ reqId'[t] = reqId[t])
             => sent'[rd[t]] = sent[rd[t]]]_vars

\* C2: on every subprocess the ids of the requests it received are 1, 2, 3,
\* ... in write order.
C2_IdsFromOne ==
  \A p \in Procs : \A i \in 1..Len(Requests(p)) : Requests(p)[i].id = i

\* Every subprocess that is gone answered every request it had received
\* (one line per request, in request order; Serve writes nothing else).
OneReplyPerRequest ==
  \A p \in Procs : st[p] \in {"dead", "reaped"} => answered[p] = Len(Requests(p))

\* C3: when the subprocess writes exactly one line per request, in order, the
\* envelope _send_request returns to a call is the reply to the request that
\* call wrote.
C3_OwnResponse ==
  OneReplyPerRequest => \A t \in Calls : respTo[t] # 0 => respTo[t] = reqId[t]

\* C4: on every subprocess the first line is the initialize request, the
\* initialized notification is written only after the initialize response was
\* read, and no tools/call or resources/read line precedes the notification.
C4_HandshakeOrder ==
  \A p \in Procs :
    /\ sent[p] # <<>> => sent[p][1].method = "initialize"
    /\ Positions(p, {"notifications/initialized"}) # {} =>
          (hsResp[p].re # 0 /\ hsResp[p].re = sent[p][1].id)
    /\ \A i \in Positions(p, ToolMethods) :
          \E j \in Positions(p, {"notifications/initialized"}) : j < i

\* C5: while no subprocess exit has been seen, concurrent callers spawn one
\* subprocess and perform one handshake between them; every caller that got
\* past _ensure_connected without spawning found that subprocess.
C5_SingleSpawn ==
  (\A p \in Procs : st[p] # "reaped") =>
     /\ Cardinality(Spawned) <= 1
     /\ Cardinality({t \in Calls : cp[t] # 0}) <= 1
     /\ \A p \in Procs : Cardinality(Positions(p, {"initialize"})) <= 1
     /\ (\E t \in Calls : PastConnect(t)) =>
           (Spawned = {1} /\ process = 1 /\ Cardinality(Positions(1, {"initialize"})) = 1)

\* Three calls overlapped: one spawned the subprocess, one queued on
\* _connect_lock meanwhile and got past _ensure_connected without spawning,
\* one is still queued on _connect_lock.
C5_Witness ==
  /\ \A p \in Procs : st[p] # "reaped"
  /\ \E t, u, v \in Calls :
       /\ cp[t] # 0 /\ pc[t] = "reading" /\ kont[t] = "tool"
       /\ cp[u] = 0 /\ pc[u] = "wait_io" /\ PastConnect(u)
       /\ pc[v] = "wait_connect"

\* C6: connect() called while the spawned subprocess is alive returns True
\* and changes nothing; with no exit, connect calls spawn one subprocess, and
\* at most one subprocess is running in every state.
C6_ConnectIdempotent ==
  /\ [][\A t \in Calls :
          (pc[t] = "idle" /\ pc'[t] # "idle" /\ via'[t] = "direct" /\ ProcessAlive(State)) =>
             /\ pc'[t] = "done" /\ outcome'[t].text = "True" /\ ~outcome'[t].raised
             /\ process' = process /\ request_id' = request_id /\ io_lock' = io_lock
             /\ sent' = sent /\ st' = st /\ hs' = hs]_vars
  /\ []((\A p \in Procs : st[p] \in {"unborn", "running"}) => Cardinality(Spawned) <= 1)
  /\ [](Cardinality(Running) <= 1)

\* A second connect() returned True without spawning while the subprocess the
\* first one spawned was running.
C6_Witness ==
  \E t, u \in Calls :
     /\ t < u /\ via[t] = "direct" /\ via[u] = "direct"
     /\ cp[t] = 1 /\ cp[u] = 0 /\ pc[u] = "done" /\ outcome[u].text = "True"
     /\ st[1] = "running" /\ Spawned = {1}

\* C7: no caller stays blocked in get_mcp_response after the wait bound has
\* passed: by then the call has returned.
C7_BoundedWait ==
  \A t \in Calls : expired[t] => pc[t] = "done"

C9_ErrorHandshakeFails ==
  \A p \in Procs :
     (hs[p] # "-" /\ hsResp[p].shape = "error") =>
        (hs[p] = "failed" /\ Positions(p, {"notifications/initialized"}) = {})

\* C10: a subprocess whose connect returned False never receives a
\* tools/call or resources/read request.
C10_NoUseAfterFailedHandshake ==
  \A p \in Procs : hs[p] = "failed" => Positions(p, ToolMethods) = {}

\* C11: connect never raises: whatever goes wrong in the spawn or in the
\* handshake, an awaited connect() ends by returning False.
C11_ConnectNeverRaises ==
  \A t \in Calls : (pc[t] = "done" /\ via[t] = "direct" /\ act[t] = "connect") =>
     /\ ~outcome[t].raised
     /\ outcome[t].text \in {"True", "False"}
     /\ outcome[t].cause # "-" => outcome[t].text = "False"

\* C12: when the read after a written request yields no bytes, _send_request
\* raises 'No response from MCP server' instead of returning an envelope, the
\* call no longer holds any lock, and get_mcp_response returns (None, error).
C12_NoResponseIsError ==
  [][\A t \in Calls :
       (/\ pc[t] = "reading"
        /\ eof[rd[t]]
        /\ ~LineAvailable(State, rd[t])
        /\ pc'[t] # "reading") =>
          /\ pc'[t] = "done"
          /\ respTo'[t] = 0
          /\ \A l \in LockIds : holder'[l] # t
          /\ ~outcome'[t].raised
          /\ outcome'[t].cause \in {"no_response", "handshake"}
          /\ outcome'[t].text = None
          /\ outcome'[t].error \in {"Connection error", "Error reading resource",
                                    "Internal backend error"}]_vars

\* A chat call whose subprocess closed its output after the request was
\* written has returned, and the _io_lock it held is free.
C12_Witness ==
  \E t \in Calls :
     /\ pc[t] = "done" /\ act[t] = "chat" /\ outcome[t].cause = "no_response"
     /\ \E p \in Procs : eof[p] /\ \E i \in 1..Len(sent[p]) : sent[p][i].id = reqId[t]
     /\ \A l \in LockIds : holder[l] = 0

\* The wrappers that return the text of a tools/call response.
TextTools == {"chat", "analyze_symptoms"}

DefaultTools == {"clear_history", "get_summary"}

Invoked == tool_out # NoOutcome

\* C13: every outcome get_mcp_response returns has exactly one of its two
\* components populated: text is None if and only if error is not None.
C13_ExactlyOnePopulated ==
  Invoked => ((tool_out.text = None) <=> (tool_out.error # None))

\* C14: for chat and analyze_symptoms, a result with a content list whose
\* first item has a text yields (that text, None), and an error envelope
\* carrying a message, with no such result, yields (None, that message).
C14_ResultAndErrorMapping ==
  (Invoked /\ tool_action \in TextTools /\ tool_resp.raises = "-") =>
     /\ (tool_resp.has_result /\ tool_resp.content \in {"text", "null"}) =>
           /\ tool_out.text = (IF tool_resp.content = "text" THEN "text" ELSE None)
           /\ tool_out.error = None
     /\ (~tool_resp.has_result /\ tool_resp.error \in {"message", "null"}) =>
           /\ tool_out.text = None
           /\ tool_out.error = (IF tool_resp.error = "message" THEN "message" ELSE None)

\* chat was answered with the envelope {"error": {"message": ...}} and
\* returned (None, that message).
C14_Witness ==
  /\ Invoked
  /\ tool_action = "chat"
  /\ tool_resp = Returned(FALSE, "absent", "absent", "message")
  /\ tool_out.text = None /\ tool_out.error = "message"

\* C15: for chat, analyze_symptoms, clear_history and get_summary an error
\* envelope yields (None, message) with the subprocess's message, never a
\* success value.
C15_ErrorEnvelopeIsError ==
  (/\ Invoked
   /\ tool_action \in TextTools \cup DefaultTools
   /\ tool_resp.raises = "-" /\ ~tool_resp.has_result /\ tool_resp.error = "message") =>
      (tool_out.text = None /\ tool_out.error = "message")

\* C16: with no error and without the expected fields (no result, a result
\* without content, an empty content list) chat and analyze_symptoms yield
\* (None, 'Unexpected response format'), and clear_history and get_summary
\* yield their fixed default message as a success.
C16_UnexpectedFormat ==
  (/\ Invoked
   /\ tool_resp.raises = "-" /\ tool_resp.error = "absent"
   /\ tool_resp.content \in {"absent", "empty"}) =>
      /\ tool_action \in TextTools =>
           (tool_out.text = None /\ tool_out.error = "Unexpected response format")
      /\ tool_action = "clear_history" =>
           (tool_out.text = "Conversation history cleared." /\ tool_out.error = None)
      /\ tool_action = "get_summary" =>
           (tool_out.text = "No conversation to summarise." /\ tool_out.error = None)

\* C17: an action name outside the dispatch table yields (None, 'Unknown
\* action: <name>') whatever the state of the Connection, and never raises.
C17_UnknownAction ==
  \A t \in Calls : (pc[t] = "done" /\ via[t] = "facade" /\ act[t] = "bogus") =>
     /\ ~outcome[t].raised
     /\ outcome[t].text = None
     /\ outcome[t].error = "Unknown action"

CloseCalls == {t \in Calls : act[t] = "close"}

\* C18: close on a client that never connected returns without raising and
\* leaves process, request_id and _io_lock as they were; no close raises, a
\* second one after a completed close included.
C18_CloseNoOp ==
  /\ [][\A t \in Calls :
          (pc[t] = "idle" /\ pc'[t] # "idle" /\ act'[t] = "close" /\ process = 0) =>
             /\ pc'[t] = "done" /\ ~outcome'[t].raised
             /\ process' = process /\ request_id' = request_id /\ io_lock' = io_lock
             /\ stdin_closed' = stdin_closed /\ terminated' = terminated]_vars
  /\ [](\A t \in CloseCalls : pc[t] = "done" => ~outcome[t].raised)

\* connect, close and close again have all returned, the first close on a
\* connected client.
C18_Witness ==
  \E t, u, v \in Calls :
     /\ t < u /\ u < v
     /\ act[t] = "connect" /\ cp[t] # 0 /\ pc[t] = "done"
     /\ u \in CloseCalls /\ pc[u] = "done" /\ ~outcome[u].raised
     /\ v \in CloseCalls /\ pc[v] = "done" /\ ~outcome[v].raised
     /\ stdin_closed[cp[t]]

\* C19: close on a connected client closes the subprocess's stdin before it
\* waits; terminate() is sent only when the bounded wait expired with the
\* exit not seen, and is followed by a second wait; whenever close has
\* returned the subprocess has exited.
C19_CloseOrder ==
  /\ [](\A t \in CloseCalls :
          /\ pc[t] \in {"close_wait", "close_wait2"} => stdin_closed[rd[t]]
          /\ pc[t] = "close_wait2" => terminated[rd[t]])
  /\ [][\A t \in Calls :
          (/\ act'[t] = "close" /\ pc[t] # "done" /\ pc'[t] = "done"
           /\ ~outcome'[t].raised /\ process' # 0) => st'[process'] = "reaped"]_vars
  /\ [][\A p \in Procs :
          (terminated'[p] /\ ~terminated[p]) =>
             /\ stdin_closed[p] /\ st[p] # "reaped"
             /\ \E t \in CloseCalls :
                  pc[t] = "close_wait" /\ rd[t] = p /\ pc'[t] = "close_wait2" /\ rd'[t] = p]_vars
  /\ [][\A t \in CloseCalls :
          (pc[t] = "close_wait" /\ pc'[t] # "close_wait" /\ st[rd[t]] # "reaped") =>
             terminated'[rd[t]]]_vars

\* A close whose bounded wait expired terminated the subprocess, waited again
\* and returned after the exit.
C19_Witness ==
  \E t \in CloseCalls :
     /\ via[t] = "direct" /\ pc[t] = "done" /\ ~outcome[t].raised
     /\ process # 0 /\ terminated[process] /\ stdin_closed[process]
     /\ st[process] = "reaped"

\* The close coroutine the shutdown hook submitted.
HookClose == {t \in Calls : via[t] = "shutdown"}

\* C20: _shutdown submits the close before it requests the loop stop; however
\* the wait on close ended (close returned, close raised, the wait expired)
\* the stop is requested; _shutdown never raises.
C20_ShutdownStopsLoop ==
  /\ [](shutdown # "raised")
  /\ [](loop # "running" => (shutdown = "returned" /\ HookClose # {}))
  /\ [](shutdown = "returned" => loop # "running")
  /\ [][loop' # loop /\ loop = "running" =>
          (shutdown = "waiting" /\ \E t \in HookClose : pc[t] # "idle")]_vars

\* The hook returned after its wait on close expired: the close coroutine is
\* still waiting for the exit and the loop has been stopped.
C20_Witness ==
  /\ shutdown = "returned"
  /\ loop = "stopped"
  /\ \E t \in HookClose : pc[t] \in {"close_wait", "close_wait2"}

\* C21: with a subprocess that answers every request it receives, every
\* get_mcp_response call that started returns (the calls being finitely many:
\* from some point on no call is pending); a call that has returned holds no
\* lock and waits on none, whether it ended with an exception or not.
C21_NoDeadlock ==
  /\ <>[](\A t \in Calls : pc[t] \in {"idle", "done"})
  /\ [](\A t \in Calls : pc[t] = "done" =>
          \A l \in LockIds :
             holder[l] # t /\ \A i \in 1..Len(waiters[l]) : waiters[l][i] # t)

\* Three overlapping calls have all returned, one of them after an exception
\* inside _send_request and one after waiting for a lock, and every lock is
\* free.
C21_Witness ==
  /\ \A t \in Calls : pc[t] = "done"
  /\ \E t \in Calls : outcome[t].cause \in {"transport", "no_response", "malformed", "handshake"}
  /\ \E t \in Calls : outcome[t].text = "text"
  /\ \A l \in LockIds : holder[l] = 0 /\ waiters[l] = <<>>


\* C22: _send_request on a Connection that is not live (the subprocess's
\* returncode is set) writes nothing to its pipe and does not start to wait
\* for a response from it.
C22_FailsFast ==
  [][\A p \in Procs : st[p] = "reaped" =>
        /\ sent'[p] = sent[p]
        /\ \A t \in Calls : rd'[t] = p => rd[t] = p]_vars


\* C23: the notification is one line without an id (id 0 stands for no id) per
\* handshake, the coroutine sending it never reads, and the first tools/call
\* or resources/read written after the notification carries the id that
\* follows the id of the initialize request.
C23_NotificationFrame ==
  LET Note(p, i) == sent[p][i].method = "notifications/initialized"
      Tool(p, i) == sent[p][i].method \in ToolMethods
  IN /\ \A p \in Procs : \A i \in 1..Len(sent[p]) : Note(p, i) <=> sent[p][i].id = 0
     /\ \A p \in Procs : Cardinality({i \in 1..Len(sent[p]) : Note(p, i)}) <= 1
     /\ \A t \in Calls : kont[t] = "notify" => rd[t] = 0 /\ pc[t] # "reading"
     /\ \A p \in Procs : \A i \in 1..Len(sent[p]) : Note(p, i) =>
          \A k \in (i+1)..Len(sent[p]) :
             (Tool(p, k) /\ \A j \in (i+1)..(k-1) : ~Tool(p, j)) =>
                \E j \in 1..(i-1) : /\ sent[p][j].method = "initialize"
                                    /\ sent[p][k].id = sent[p][j].id + 1


\* ------------------------------------------------ parse_message_for_action
\* A message is a sequence of tokens, each standing for a run of characters;
\* the tokens are chosen so that no keyword or phrase begins or ends inside
\* a token.  " " is whitespace, "Symptoms" and "I" have upper-case letters.
MaxMessage == 5

Tokens == {" ", ":", "symptoms", "Symptoms", "analyze", "pain", "I", "have", "hello"}

Messages == UNION {[1..n -> Tokens] : n \in 0..MaxMessage}

\* str.lower()
Lower(m) ==
  [i \in 1..Len(m) |-> CASE m[i] = "Symptoms" -> "symptoms"
                         [] m[i] = "I" -> "i"
                         [] OTHER -> m[i]]

\* str.strip()
RECURSIVE Strip(_)
Strip(m) ==
  IF m = <<>> THEN m
  ELSE IF Head(m) = " " THEN Strip(Tail(m))
  ELSE IF m[Len(m)] = " " THEN Strip(SubSeq(m, 1, Len(m) - 1))
  ELSE m

\* txt.startswith(prefix)
StartsWith(m, prefix) == Len(m) >= Len(prefix) /\ SubSeq(m, 1, Len(prefix)) = prefix

\* sub in txt
Contains(m, sub) ==
  \E i \in 0..(Len(m) - Len(sub)) : SubSeq(m, i + 1, i + Len(sub)) = sub

\* message.split(":", 1)[1]  (chatbot.py: message[message.find(':') + 1:])
AfterColon(m) ==
  LET i == CHOOSE k \in 1..Len(m) : m[k] = ":" /\ \A j \in 1..(k - 1) : m[j] # ":"
  IN SubSeq(m, i + 1, Len(m))

_MEDICAL_KEYWORDS ==
  {<<"pain">>, <<"fever">>, <<"headache">>, <<"nausea">>, <<"cough">>, <<"symptoms">>,
   <<"hurt">>, <<"ache">>, <<"sick">>, <<"illness">>}

Phrases == {<<"i", " ", "have">>, <<"experiencing">>, <<"feeling">>, <<"symptoms">>}

\* Faulty variant: a keyword alone is enough.
medical_keyword_only(txt) ==
  \E kw \in _MEDICAL_KEYWORDS : Contains(txt, kw)

\* lines 315-317: any keyword in txt and any phrase in txt
medical(txt) ==
  /\ \E kw \in _MEDICAL_KEYWORDS : Contains(txt, kw)
  /\ \E p \in Phrases : Contains(txt, p)

\* Faulty variant: the keyword rule is tried before the prefix rule.
parse_keyword_first(m) ==
  LET txt == Strip(Lower(m)) IN
  IF medical(txt)
  THEN [action |-> "analyze_symptoms", key |-> "symptoms", value |-> <<m>>]
  ELSE IF StartsWith(txt, <<"symptoms", ":">>) \/ StartsWith(txt, <<"analyze", ":">>)
  THEN [action |-> "analyze_symptoms", key |-> "symptoms", value |-> <<Strip(AfterColon(m))>>]
  ELSE [action |-> "chat", key |-> "message", value |-> <<m>>]

\* lines 309-320
parse_message_for_action(m) ==
  LET txt == Strip(Lower(m)) IN
  IF StartsWith(txt, <<"symptoms", ":">>) \/ StartsWith(txt, <<"analyze", ":">>)
  THEN [action |-> "analyze_symptoms", key |-> "symptoms", value |-> <<Strip(AfterColon(m))>>]
  ELSE IF medical(txt)
  THEN [action |-> "analyze_symptoms", key |-> "symptoms", value |-> <<m>>]
  ELSE [action |-> "chat", key |-> "message", value |-> <<m>>]

InitParse ==
  /\ InitClient /\ InitToolLayer /\ InitServer /\ InitWeb
  /\ InitFrontWith(Messages, {<<>>}, {0}, {[symptoms |-> "", age |-> <<>>, gender |-> <<>>]})

\* The front end classifies the message of a chat request.
Parse ==
  /\ parsed = NoParse
  /\ parsed' = parse_message_for_action(message)
  /\ UNCHANGED <<backendVars, serverVars, webVars, message, trim_in, trim_cap, trim_out,
                 history, args_in, args_backend, args_chatbot>>

SpecParse == InitParse /\ [][Parse]_vars

\* C24: a message whose lower-cased, stripped form starts with "symptoms:" or
\* "analyze:" is classified as analyze_symptoms with the text after the first
\* colon of the message, stripped, as symptoms; also when the keyword rule
\* would match the message.
C24_PrefixRule ==
  LET txt == Strip(Lower(message)) IN
  (parsed # NoParse /\ Len(txt) >= 2 /\ txt[1] \in {"symptoms", "analyze"} /\ txt[2] = ":") =>
     /\ parsed.action = "analyze_symptoms"
     /\ parsed.key = "symptoms"
     /\ \E i \in 1..Len(message) :
          /\ message[i] = ":"
          /\ \A j \in 1..(i - 1) : message[j] # ":"
          /\ parsed.value = <<Strip(SubSeq(message, i + 1, Len(message)))>>

\* "Symptoms: pain " was classified: a message with upper case that the
\* keyword rule matches as well ("symptoms" is a keyword and a phrase), and
\* whose remainder is stripped.
C24_Witness ==
  /\ message = <<"Symptoms", ":", " ", "pain", " ">>
  /\ parsed.action = "analyze_symptoms"
  /\ parsed.value = <<(<<"pain">>)>>

MaxEntries == 4

MaxContent == 3

MaxCap == 6

Histories == UNION {[1..n -> 0..MaxContent] : n \in 0..MaxEntries}

\* sum(len(msg.get("content", "")) for msg in history)
RECURSIVE Sum(_)
Sum(h) == IF h = <<>> THEN 0 ELSE Head(h) + Sum(Tail(h))

\* Faulty variant: the loop runs while more than one entry is left.
RECURSIVE trim_history_keeps_one(_, _)
trim_history_keeps_one(h, max_chars) ==
  IF Sum(h) > max_chars /\ Len(h) > 1 THEN trim_history_keeps_one(Tail(h), max_chars) ELSE h

\* frontend.py lines 63-75: while current_chars > max_chars and
\* len(history) > 2: history.pop(0)
RECURSIVE trim_history(_, _)
trim_history(h, max_chars) ==
  IF Sum(h) > max_chars /\ Len(h) > 2 THEN trim_history(Tail(h), max_chars) ELSE h

InitTrim ==
  /\ InitClient /\ InitToolLayer /\ InitServer /\ InitWeb
  /\ InitFrontWith({<<>>}, Histories, 0..MaxCap, {[symptoms |-> "", age |-> <<>>, gender |-> <<>>]})

Trim ==
  /\ trim_out = NotTrimmed
  /\ trim_out' = trim_history(trim_in, trim_cap)
  /\ UNCHANGED <<backendVars, serverVars, webVars, message, parsed, trim_in, trim_cap,
                 history, args_in, args_backend, args_chatbot>>

SpecTrim == InitTrim /\ [][Trim]_vars

\* C26: the result of trim_history is the input without its first k entries;
\* it is within the cap or has at most 2 entries; and before each of the k
\* removals the history was above the cap and had more than 2 entries, so
\* that nothing is removed from a history within the cap or of at most 2
\* entries.
C26_TrimHistory ==
  trim_out # NotTrimmed =>
    LET n == Len(trim_in)
        k == n - Len(trim_out)
    IN /\ k >= 0
       /\ trim_out = SubSeq(trim_in, k + 1, n)
       /\ Sum(trim_out) <= trim_cap \/ Len(trim_out) <= 2
       /\ \A j \in 0..(k - 1) : Sum(SubSeq(trim_in, j + 1, n)) > trim_cap /\ n - j > 2

\* Four entries above the cap were trimmed to the last two, which are still
\* above the cap.
C26_Witness ==
  /\ Len(trim_in) = 4
  /\ trim_out = SubSeq(trim_in, 3, 4)
  /\ Sum(trim_out) > trim_cap


\* ------------------------------------------------- the routes of a session
\* session["history"] as the sequence of the lengths of its contents.
MAX_HISTORY_CHARS == 4000

\* len(help_text)
HelpChars == 689

MaxHistory == 6

\* Lengths of a user message and of a reply or an error text.
Sizes == {1, 2000}

\* /chat (lines 100-126) and /analyze_symptoms (lines 160-198): the user's
\* entry and the reply or the error are appended, then the history is trimmed.
Submit(route) ==
  /\ Len(history) + 2 <= MaxHistory
  /\ \E user \in Sizes, reply \in Sizes :
        history' = trim_history(history \o <<user, reply>>, MAX_HISTORY_CHARS)
  /\ UNCHANGED <<backendVars, serverVars, webVars, message, parsed, trim_in, trim_cap,
                 trim_out, args_in, args_backend, args_chatbot>>

\* /summary (lines 138-157), /server_info and /greeting/<name>: the reply or
\* the error is appended; trim_history is not called.
Fetch(route) ==
  /\ Len(history) < MaxHistory
  /\ \E reply \in Sizes : history' = Append(history, reply)
  /\ UNCHANGED <<backendVars, serverVars, webVars, message, parsed, trim_in, trim_cap,
                 trim_out, args_in, args_backend, args_chatbot>>

\* /help (lines 291-316): the help text is appended; trim_history is not called.
help_page ==
  /\ Len(history) < MaxHistory
  /\ history' = Append(history, HelpChars)
  /\ UNCHANGED <<backendVars, serverVars, webVars, message, parsed, trim_in, trim_cap,
                 trim_out, args_in, args_backend, args_chatbot>>

\* /clear: session.pop("history")
clear_chat ==
  /\ history' = <<>>
  /\ UNCHANGED <<backendVars, serverVars, webVars, message, parsed, trim_in, trim_cap,
                 trim_out, args_in, args_backend, args_chatbot>>

NextSession ==
  \/ \E route \in {"chat", "analyze_symptoms"} : Submit(route)
  \/ \E route \in {"summary", "server_info", "greeting"} : Fetch(route)
  \/ help_page
  \/ clear_chat

SpecSession == Init /\ [][NextSession]_vars

\* C27: after any sequence of route handlings the history of the session is
\* within MAX_HISTORY_CHARS or has at most 2 entries.
C27_HistoryCapped == Sum(history) <= MAX_HISTORY_CHARS \/ Len(history) <= 2


\* ------------------------------------------- arguments of analyze_symptoms
MaxAge == 8

ArgInputs ==
  [symptoms : {"", "cough"},
   age : {<<>>} \cup {<<a>> : a \in 0..MaxAge},
   gender : {<<>>, <<"">>, <<"female">>}]

\* backend.py lines 159-163: if age is not None / if gender
analyze_symptoms_args(in) ==
  [symptoms |-> <<in.symptoms>>,
   patient_age |-> IF in.age # <<>> THEN in.age ELSE <<>>,
   patient_gender |-> IF in.gender \notin {<<>>, <<"">>} THEN in.gender ELSE <<>>]

\* chatbot.py lines 193-197: if age / if gender
chatbot_analyze_symptoms_args(in) ==
  [symptoms |-> <<in.symptoms>>,
   patient_age |-> IF in.age \notin {<<>>, <<0>>} THEN in.age ELSE <<>>,
   patient_gender |-> IF in.gender \notin {<<>>, <<"">>} THEN in.gender ELSE <<>>]

InitArgs ==
  /\ InitClient /\ InitToolLayer /\ InitServer /\ InitWeb
  /\ InitFrontWith({<<>>}, {<<>>}, {0}, ArgInputs)

\* analyze_symptoms(symptoms, age, gender) of either client builds args
BuildArgs ==
  /\ args_backend = NoArgs
  /\ args_backend' = analyze_symptoms_args(args_in)
  /\ args_chatbot' = chatbot_analyze_symptoms_args(args_in)
  /\ UNCHANGED <<backendVars, serverVars, webVars, message, parsed, trim_in, trim_cap,
                 trim_out, history, args_in>>

SpecArgs == InitArgs /\ [][BuildArgs]_vars

\* C28: in the arguments either client builds, symptoms is present,
\* patient_age is present exactly when an age was given (0 included) and is
\* that age, patient_gender is present exactly when a non-empty gender was
\* given, and no argument is the empty string.
C28_Arguments ==
  args_backend # NoArgs =>
    \A args \in {args_backend, args_chatbot} :
       /\ args.symptoms # <<>>
       /\ args.patient_age = args_in.age
       /\ args.patient_gender # <<>> <=> args_in.gender \notin {<<>>, <<"">>}
       /\ args.symptoms # <<"">> /\ args.patient_gender # <<"">>


\* C29: for get_greeting and get_server_info, a result without
\* contents[0].text (no contents, an empty contents list, a first item
\* without text) yields the placeholder as a success: ('Hello!', None) or
\* ('No server info', None).
C29_ResourcePlaceholder ==
  (/\ Invoked
   /\ tool_action \in {"get_greeting", "get_server_info"}
   /\ tool_resp.raises = "-" /\ tool_resp.has_result
   /\ tool_resp.contents \in {"absent", "empty", "notext"}) =>
      /\ tool_out.error = None
      /\ tool_out.text = IF tool_action = "get_greeting" THEN "Hello!" ELSE "No server info"


\* ------------------------------------------------ the tools of server.py
\* conversation_history as the sequence of its entries' roles; model_calls
\* counts the calls of model.generate_text.
MaxConversation == 6

MaxModelCalls == 5

\* Faulty variant: an exception of the model call leaves the tool.
server_chat_raises ==
  /\ Len(conversation_history) + 2 <= MaxConversation
  /\ model_calls < MaxModelCalls
  /\ model_calls' = model_calls + 1
  /\ srv_last' = "chat_with_watsonx"
  /\ \/ /\ conversation_history' = conversation_history \o <<"user", "assistant">>
        /\ srv_ret' = "generated_text"
     \/ /\ conversation_history' = Append(conversation_history, "user")
        /\ srv_ret' = "raised"
  /\ UNCHANGED <<backendVars, frontVars, webVars>>

\* chat_with_watsonx, lines 73-128: the user entry is appended before the
\* model is called; an exception of the model is returned as a message.
server_chat_with_watsonx ==
  /\ Len(conversation_history) + 2 <= MaxConversation
  /\ model_calls < MaxModelCalls
  /\ model_calls' = model_calls + 1
  /\ srv_last' = "chat_with_watsonx"
  /\ \/ /\ conversation_history' = conversation_history \o <<"user", "assistant">>
        /\ srv_ret' = "generated_text"
     \/ /\ conversation_history' = Append(conversation_history, "user")
        /\ srv_ret' = "Error generating response"
  /\ UNCHANGED <<backendVars, frontVars, webVars>>

\* analyze_medical_symptoms, lines 131-193: no use of conversation_history
analyze_medical_symptoms ==
  /\ model_calls < MaxModelCalls
  /\ model_calls' = model_calls + 1
  /\ srv_last' = "analyze_medical_symptoms"
  /\ srv_ret' \in {"analysis", "Error analyzing symptoms"}
  /\ UNCHANGED <<backendVars, frontVars, webVars, conversation_history>>

\* clear_conversation_history, lines 196-206
clear_conversation_history ==
  /\ conversation_history' = <<>>
  /\ srv_last' = "clear_conversation_history"
  /\ srv_ret' = "Conversation history has been cleared. Starting fresh!"
  /\ UNCHANGED <<backendVars, frontVars, webVars, model_calls>>

\* Faulty variant: the summary is asked of the model whatever the history.
get_conversation_summary_unchecked ==
  /\ model_calls < MaxModelCalls
  /\ model_calls' = model_calls + 1
  /\ srv_last' = "get_conversation_summary"
  /\ srv_ret' \in {"summary", "Error generating summary"}
  /\ UNCHANGED <<backendVars, frontVars, webVars, conversation_history>>

\* get_conversation_summary, lines 209-257
get_conversation_summary ==
  /\ srv_last' = "get_conversation_summary"
  /\ IF conversation_history = <<>>
     THEN /\ srv_ret' = "No conversation history available."
          /\ model_calls' = model_calls
     ELSE /\ model_calls < MaxModelCalls
          /\ model_calls' = model_calls + 1
          /\ srv_ret' \in {"summary", "Error generating summary"}
  /\ UNCHANGED <<backendVars, frontVars, webVars, conversation_history>>

NextServer ==
  \/ server_chat_with_watsonx
  \/ analyze_medical_symptoms
  \/ clear_conversation_history
  \/ get_conversation_summary

SpecServer == Init /\ [][NextServer]_vars

\* C30: a call of clear_conversation_history leaves conversation_history
\* empty and returns the confirmation; a call of get_conversation_summary
\* that directly follows it returns 'No conversation history available.' and
\* does not call the model.
C30_ClearThenSummary ==
  [][/\ srv_last' = "clear_conversation_history" =>
          /\ conversation_history' = <<>>
          /\ srv_ret' = "Conversation history has been cleared. Starting fresh!"
     /\ (srv_last = "clear_conversation_history" /\ srv_last' = "get_conversation_summary") =>
          /\ srv_ret' = "No conversation history available."
          /\ model_calls' = model_calls]_vars

\* After a conversation that called the model, the history is empty and the
\* summary answered without the model.
C30_Witness ==
  /\ srv_last = "get_conversation_summary"
  /\ srv_ret = "No conversation history available."
  /\ conversation_history = <<>>
  /\ model_calls > 0


\* C31: a call of the chat_with_watsonx tool returns a value: the generated
\* text after exactly one call of the model, or the message 'Error generating
\* response: ...' when the model call failed; it never raises.
C31_ChatToolNeverRaises ==
  [][srv_last' = "chat_with_watsonx" =>
        /\ srv_ret' \in {"generated_text", "Error generating response"}
        /\ srv_ret' = "generated_text" => model_calls' = model_calls + 1]_vars

\* The model call of a chat failed and the tool returned the error message.
C31_Witness ==
  /\ srv_last = "chat_with_watsonx"
  /\ srv_ret = "Error generating response"
  /\ model_calls > 0

\* C40: conversation_history is a sequence of pairs, a user entry directly
\* followed by its assistant entry, and analyze_medical_symptoms and
\* get_conversation_summary leave it unchanged.
C40_HistoryPairs ==
  /\ [](/\ Len(conversation_history) % 2 = 0
        /\ \A i \in 1..Len(conversation_history) :
              conversation_history[i] = IF i % 2 = 1 THEN "user" ELSE "assistant")
  /\ [][srv_last' \in {"analyze_medical_symptoms", "get_conversation_summary"} =>
          conversation_history' = conversation_history]_vars


\* C38: a get_mcp_response call with an unknown action name writes nothing to
\* the subprocess, reads nothing from it and leaves request_id unchanged in
\* every step it takes while the client is connected (the subprocess is alive
\* and its handshake succeeded): it returns, or queues on _connect_lock
\* behind an earlier caller and returns when woken.
C38_UnknownActionNoIo ==
  [][\A t \in Calls :
        (/\ pc'[t] # pc[t] /\ act'[t] = "bogus"
         /\ ProcessAlive(State) /\ hs[process] = "ok") =>
           /\ pc'[t] \in {"done", "wait_connect"}
           /\ sent' = sent /\ out' = out /\ rd' = rd
           /\ request_id' = request_id /\ process' = process]_vars

\* A call with an unknown name returned on a client another call had
\* connected, and the subprocess has received that call's lines only.
C38_Witness ==
  \E t, u \in Calls :
     /\ act[t] = "bogus" /\ pc[t] = "done" /\ cp[t] = 0
     /\ outcome[t].error = "Unknown action"
     /\ act[u] = "chat" /\ cp[u] = process /\ process # 0 /\ hs[process] = "ok"
     /\ pc[u] = "done"
     /\ Len(sent[process]) = 3


\* C33: after a re-spawn no call that queued on the previous _io_lock is in
\* the middle of a request on the streams of the new subprocess while another
\* call holds the new _io_lock.
C33_ExclusionAcrossRespawn ==
  \A t \in Calls :
     (pc[t] = "reading" /\ rd[t] = process /\ lk[t] # io_lock) => holder[io_lock] = 0


\* C34: the wait of the shutdown hook on close ends only when close has
\* returned or has run its terminate step (its own bounded wait expired), so
\* that a subprocess that ignores the closing of its stdin is terminated
\* before the loop is stopped.
C34_TerminateBeforeStop ==
  /\ [][(shutdown = "waiting" /\ shutdown' = "returned") =>
          \A t \in HookClose : pc[t] \in {"done", "close_wait2"}]_vars
  /\ [](loop = "stopped" =>
          \A t \in HookClose : pc[t] \in {"close_wait", "close_wait2"} => terminated[rd[t]])


\* The facade together with close() awaited between calls.
NextRespawn ==
  \/ Next
  \/ \E t \in Calls : CloseCall(t)
  \/ \E t \in Calls : CloseWaitDone(t)
  \/ \E t \in Calls : CloseTimeout(t)
  \/ \E p \in Procs : Quit(p)

SpecRespawn == Init /\ [][NextRespawn]_vars

\* C35: no subprocess exists before the first call; a get_mcp_response call
\* that enters _ensure_connected when no subprocess is alive (none spawned
\* yet, or its exit seen, after close() as well) goes on to spawn one,
\* whatever became of earlier calls; and a call that spawned a subprocess
\* writes its own request there only after the initialize request and the
\* notification.
C35_SpawnOnDemand ==
  /\ []((\A t \in Calls : pc[t] = "idle") => (process = 0 /\ Spawned = {}))
  /\ [][\A t \in Calls :
          (/\ pc'[t] # pc[t] /\ pc[t] \in {"idle", "wait_connect"} /\ via'[t] = "facade"
           /\ ~ProcessAlive(State)) => pc'[t] \in {"spawning", "wait_connect"}]_vars
  /\ [](\A t \in Calls : \A p \in Procs : \A k \in 1..Len(sent[p]) :
          (/\ via[t] = "facade" /\ cp[t] # 0
           /\ sent[p][k].id = reqId[t] /\ sent[p][k].method \in ToolMethods) =>
             /\ p = cp[t]
             /\ \E i, j \in 1..(k - 1) :
                  /\ i < j
                  /\ sent[p][i].method = "initialize"
                  /\ sent[p][j].method = "notifications/initialized")

\* A call failed on a subprocess that exited; the next call spawned a second
\* subprocess, completed the handshake and wrote its request there.
C35_Witness ==
  \E t, u \in Calls :
     /\ pc[t] = "done" /\ cp[t] = 1 /\ outcome[t].text = None
     /\ cp[u] = 2 /\ process = 2 /\ st[1] = "reaped"
     /\ pc[u] = "reading" /\ kont[u] = "tool"
     /\ Len(sent[2]) = 3 /\ sent[2][3].id = reqId[u]


\* The atexit hook starts while get_mcp_response calls are under way, one of
\* them with its request written and its response not yet read.
ShutdownInflight(t) ==
  /\ shutdown = "idle"
  /\ pc[t] = "idle"
  /\ \A u \in Calls : u < t => pc[u] # "idle"
  /\ \E u \in Calls : pc[u] = "reading" /\ kont[u] = "tool"
  /\ Resumed([State EXCEPT !.pc[t] = "close_enter", !.via[t] = "shutdown", !.act[t] = "close"], t)
  /\ shutdown' = "waiting"
  /\ UNCHANGED <<loop, toolVars, frontVars, serverVars, webVars>>

NextInflight ==
  \/ \E t \in Calls, a \in ActionNames : Call(t, a)
  \/ \E t \in Calls : ConnectWake(t)
  \/ \E t \in Calls : SpawnDone(t)
  \/ \E t \in Calls : IoWake(t)
  \/ \E t \in Calls : ReadLine(t)
  \/ \E t \in Calls : ReadEof(t)
  \/ \E t \in Calls : ShutdownInflight(t)
  \/ \E t \in Calls : CloseWaitDone(t)
  \/ \E t \in Calls : CloseTimeout(t)
  \/ ShutdownResult
  \/ ShutdownExpire
  \/ LoopStop
  \/ \E p \in Procs, shape \in RespShapes : Serve(p, shape)
  \/ \E p \in Procs : Quit(p)
  \/ \E p \in Procs : Reap(p)
  \/ \E p \in Procs : Eof(p)

SpecInflight == Init /\ [][NextInflight]_vars

\* C39: a request that is in flight when close() closes the input stream of
\* its subprocess ends with an error outcome and without a lock; close
\* returns; and no call is left suspended on a loop that no longer runs.
C39_CloseDuringRequest ==
  /\ [][\A t \in Calls :
          (/\ pc[t] = "reading" /\ kont[t] = "tool" /\ stdin_closed[rd[t]]
           /\ pc'[t] = "done") =>
             /\ outcome'[t].text = None /\ outcome'[t].error # None
             /\ \A l \in LockIds : holder'[l] # t]_vars
  /\ [](\A t \in HookClose : pc[t] = "done" => ~outcome[t].raised)
  /\ [](loop = "stopped" => \A t \in Calls : pc[t] \in {"idle", "done"})

\* =================================================== chatbot.py: the client
\* The lines below model MCPWebClient of chatbot.py, initialize_mcp_client,
\* call_mcp_action and the subprocesses they talk to.  Only connect changes
\* self.process, and call_mcp_action is reached once initialize_mcp_client
\* has returned, so every task reads and writes the pipes of web_process.

\* StreamReader.readline() by task k on the stdout of subprocess p, followed
\* by json.loads (lines 141-146): a buffered line is taken at once, and a
\* line that is not JSON makes json.loads raise; with an empty buffer EOF
\* gives b"" ("No response from server"), another task already waiting makes
\* _wait_for_data raise RuntimeError, and otherwise k becomes the waiter.
web_read(k, p) ==
  IF wbuf[p] # <<>>
  THEN [status |-> IF Head(wbuf[p]).kind = "garbage" THEN "raised" ELSE "line",
        line |-> Head(wbuf[p]),
        buf |-> [wbuf EXCEPT ![p] = Tail(@)],
        waiter |-> waiter]
  ELSE IF weof[p] \/ waiter[p] # Nobody
       THEN [status |-> "raised", line |-> NoLine, buf |-> wbuf, waiter |-> waiter]
       ELSE [status |-> "wait", line |-> NoLine, buf |-> wbuf,
             waiter |-> [waiter EXCEPT ![p] = k]]

\* MCPWebClient._send_request, lines 124-147, up to its first suspension,
\* with self.connected = conn and self.process = p: no lock is taken.
web_send_request(k, conn, p) ==
  IF ~conn \/ p = 0
  THEN [status |-> "raised", line |-> NoLine, buf |-> wbuf, waiter |-> waiter,
        id |-> 0, request_id |-> web_request_id, sent |-> wsent]
  ELSE LET r == web_read(k, p)
       IN [status |-> r.status, line |-> r.line, buf |-> r.buf, waiter |-> r.waiter,
           id |-> web_request_id + 1, request_id |-> web_request_id + 1,
           sent |-> [wsent EXCEPT ![p] = Append(@, web_request_id + 1)]]

\* What the task keeps of a _send_request that ended.
Envelope(r) == IF r.status = "line" THEN r.line ELSE [kind |-> "raised", re |-> 0]

\* chat_with_watsonx, lines 171-188: the pair made of the envelope
chat_outcome(e) ==
  IF e.kind = "result" THEN "text"
  ELSE IF e.kind = "error" THEN "Error" ELSE "Connection error"

\* The subprocess a connect attempt spawns.
NextWebProc ==
  CHOOSE p \in WebProcs : wst[p] = "unborn" /\ \A q \in WebProcs : q < p => wst[q] # "unborn"

\* ---- initialize_mcp_client and connect
\* start_background_services, line 317, submits initialize_mcp_client; its
\* lines 282-289 create the client and enter the first connect, which awaits
\* create_subprocess_exec.
StartInit ==
  /\ cpc[InitTask] = "idle"
  /\ cpc' = [cpc EXCEPT ![InitTask] = "spawn"]
  /\ UNCHANGED <<web_process, web_request_id, connected, client_lock, wst, wstop,
                 wsent, wanswered, wout, wbuf, weof, waiter, whs, creq, cresp, thr,
                 tret, connects, init_ret, close_pc>>
  /\ UNCHANGED <<close_rd, backendVars, frontVars, serverVars>>

\* initialize_mcp_client, lines 287-302, once connect returned ok: return
\* True, or sleep before the next attempt, or return False after the last.
AfterConnect(ok) ==
  LET n == Len(connects) + 1 IN
  /\ connects' = Append(connects, ok)
  /\ init_ret' = IF ok THEN <<TRUE>> ELSE IF n < max_retries THEN <<>> ELSE <<FALSE>>
  /\ cpc' = [cpc EXCEPT ![InitTask] = IF ok \/ n >= max_retries THEN "done" ELSE "sleep"]

\* connect, lines 85-92 and 116-120: create_subprocess_exec raises.
WebSpawnFail ==
  /\ cpc[InitTask] = "spawn"
  /\ connected' = FALSE
  /\ AfterConnect(FALSE)
  /\ UNCHANGED <<web_process, web_request_id, client_lock, wst, wstop, wsent,
                 wanswered, wout, wbuf, weof, waiter, whs, creq, cresp, thr, tret,
                 close_pc>>
  /\ UNCHANGED <<close_rd, backendVars, frontVars, serverVars>>

\* connect, lines 85-108: the subprocess is spawned, connected is set and
\* the initialize request is written; the task waits for the response line.
WebSpawnDone ==
  /\ cpc[InitTask] = "spawn"
  /\ LET p == NextWebProc
         r == web_send_request(InitTask, TRUE, p)
     IN /\ web_process' = p
        /\ connected' = TRUE
        /\ wst' = [wst EXCEPT ![p] = "running"]
        /\ web_request_id' = r.request_id
        /\ wsent' = r.sent
        /\ wbuf' = r.buf
        /\ waiter' = r.waiter
        /\ creq' = [creq EXCEPT ![InitTask] = r.id]
        /\ cpc' = [cpc EXCEPT ![InitTask] = "reading"]
  /\ UNCHANGED <<client_lock, wstop, wanswered, wout, weof, whs, cresp, thr, tret,
                 connects, init_ret, close_pc>>
  /\ UNCHANGED <<close_rd, backendVars, frontVars, serverVars>>

\* connect, lines 98-120, resumed in readline: on a response of any JSON
\* shape the notification is sent (lines 149-161, which raise when close has
\* cleared connected, and whose drain may raise on a dead subprocess) and
\* connect returns True; every exception clears connected and returns False.
ConnectResume(drain_raises) ==
  /\ cpc[InitTask] = "woken"
  /\ LET p == web_process
         r == web_read(InitTask, p)
     IN /\ wbuf' = r.buf
        /\ waiter' = r.waiter
        /\ cresp' = [cresp EXCEPT ![InitTask] = IF r.status = "wait" THEN @ ELSE Envelope(r)]
        /\ IF r.status = "wait"
           THEN /\ ~drain_raises
                /\ cpc' = [cpc EXCEPT ![InitTask] = "reading"]
                /\ UNCHANGED <<connected, wsent, whs, connects, init_ret>>
           ELSE IF r.status = "raised" \/ ~connected
                THEN /\ ~drain_raises
                     /\ connected' = FALSE
                     /\ AfterConnect(FALSE)
                     /\ UNCHANGED <<wsent, whs>>
                ELSE /\ drain_raises => wst[p] = "dead"
                     /\ wsent' = [wsent EXCEPT ![p] = Append(@, 0)]
                     /\ connected' = ~drain_raises
                     /\ whs' = [whs EXCEPT ![p] = ~drain_raises]
                     /\ AfterConnect(~drain_raises)
  /\ UNCHANGED <<web_process, web_request_id, client_lock, wst, wstop, wanswered,
                 wout, weof, creq, thr, tret, close_pc>>
  /\ UNCHANGED <<close_rd, backendVars, frontVars, serverVars>>

\* initialize_mcp_client, lines 298-299 and 289: asyncio.sleep(2) ends and
\* the next connect awaits create_subprocess_exec.
WebSleepDone ==
  /\ cpc[InitTask] = "sleep"
  /\ cpc' = [cpc EXCEPT ![InitTask] = "spawn"]
  /\ UNCHANGED <<web_process, web_request_id, connected, client_lock, wst, wstop,
                 wsent, wanswered, wout, wbuf, weof, waiter, whs, creq, cresp, thr,
                 tret, connects, init_ret, close_pc>>
  /\ UNCHANGED <<close_rd, backendVars, frontVars, serverVars>>

\* ---- call_mcp_action
\* call_mcp_action, lines 346-382: thread t takes client_lock, submits the
\* coroutine of its action and blocks in future.result(timeout=30).  The
\* threads are numbered in the order they arrive.
CallMcpAction(t) ==
  /\ thr[t] = "idle"
  /\ \A u \in Threads : u < t => thr[u] # "idle"
  /\ init_ret # <<>>
  /\ client_lock = 0
  /\ client_lock' = t
  /\ thr' = [thr EXCEPT ![t] = "blocked"]
  /\ cpc' = [cpc EXCEPT ![t] = "submitted"]
  /\ UNCHANGED <<web_process, web_request_id, connected, wst, wstop, wsent,
                 wanswered, wout, wbuf, weof, waiter, whs, creq, cresp, tret,
                 connects, init_ret, close_pc>>
  /\ UNCHANGED <<close_rd, backendVars, frontVars, serverVars>>

\* The loop runs the coroutine of thread t: chat_with_watsonx, lines 171-178,
\* into call_tool and _send_request.
CoroStart(t) ==
  /\ cpc[t] = "submitted"
  /\ LET r == web_send_request(t, connected, web_process)
     IN /\ web_request_id' = r.request_id
        /\ wsent' = r.sent
        /\ wbuf' = r.buf
        /\ waiter' = r.waiter
        /\ creq' = [creq EXCEPT ![t] = r.id]
        /\ cresp' = [cresp EXCEPT ![t] = IF r.status = "wait" THEN @ ELSE Envelope(r)]
        /\ cpc' = [cpc EXCEPT ![t] = IF r.status = "wait" THEN "reading" ELSE "done"]
  /\ UNCHANGED <<web_process, connected, client_lock, wst, wstop, wanswered, wout,
                 weof, whs, thr, tret, connects, init_ret, close_pc>>
  /\ UNCHANGED <<close_rd, backendVars, frontVars, serverVars>>

\* The coroutine of thread t is resumed in readline.
CoroResume(t) ==
  /\ cpc[t] = "woken"
  /\ LET r == web_read(t, web_process)
     IN /\ wbuf' = r.buf
        /\ waiter' = r.waiter
        /\ cresp' = [cresp EXCEPT ![t] = IF r.status = "wait" THEN @ ELSE Envelope(r)]
        /\ cpc' = [cpc EXCEPT ![t] = IF r.status = "wait" THEN "reading" ELSE "done"]
  /\ UNCHANGED <<web_process, web_request_id, connected, client_lock, wst, wstop,
                 wsent, wanswered, wout, weof, whs, creq, thr, tret, connects,
                 init_ret, close_pc>>
  /\ UNCHANGED <<close_rd, backendVars, frontVars, serverVars>>

\* call_mcp_action, lines 383-389: future.result returns the pair of the
\* coroutine; leaving the with block releases client_lock.
FutureResult(t) ==
  /\ thr[t] = "blocked"
  /\ cpc[t] = "done"
  /\ tret' = [tret EXCEPT ![t] = chat_outcome(cresp[t])]
  /\ thr' = [thr EXCEPT ![t] = "returned"]
  /\ client_lock' = 0
  /\ UNCHANGED <<web_process, web_request_id, connected, wst, wstop, wsent,
                 wanswered, wout, wbuf, weof, waiter, whs, cpc, creq, cresp,
                 connects, init_ret, close_pc>>
  /\ UNCHANGED <<close_rd, backendVars, frontVars, serverVars>>

\* call_mcp_action, lines 383 and 391-393: future.result(timeout=30) raises
\* TimeoutError, which `except Exception` turns into (None, "Internal
\* error: ..."); client_lock is released, the coroutine is not cancelled.
FutureTimeout(t) ==
  /\ thr[t] = "blocked"
  /\ cpc[t] # "done"
  /\ tret' = [tret EXCEPT ![t] = "Internal error"]
  /\ thr' = [thr EXCEPT ![t] = "returned"]
  /\ client_lock' = 0
  /\ UNCHANGED <<web_process, web_request_id, connected, wst, wstop, wsent,
                 wanswered, wout, wbuf, weof, waiter, whs, cpc, creq, cresp,
                 connects, init_ret, close_pc>>
  /\ UNCHANGED <<close_rd, backendVars, frontVars, serverVars>>

\* ---- close
\* MCPWebClient.close, lines 258-264, submitted by stop_background_services:
\* nothing without a process, else connected is cleared, stdin is closed and
\* the task waits for the exit, at most 5.
WebClose ==
  /\ close_pc = "idle"
  /\ cpc[InitTask] # "idle"
  /\ IF web_process = 0
     THEN /\ close_pc' = "done"
          /\ UNCHANGED <<connected, wstop, close_rd>>
     ELSE /\ connected' = FALSE
          /\ wstop' = [wstop EXCEPT ![web_process] = "stdin_closed"]
          /\ close_pc' = "waiting"
          /\ close_rd' = web_process
  /\ UNCHANGED <<web_process, web_request_id, client_lock, wst, wsent, wanswered,
                 wout, wbuf, weof, waiter, whs, cpc, creq, cresp, thr, tret,
                 connects, init_ret>>
  /\ UNCHANGED <<backendVars, frontVars, serverVars>>

\* close, lines 264 and 268: process.wait() returned.
WebCloseWaitDone ==
  /\ close_pc \in {"waiting", "terminated"}
  /\ wst[close_rd] = "dead"
  /\ close_pc' = "done"
  /\ UNCHANGED close_rd
  /\ UNCHANGED <<web_process, web_request_id, connected, client_lock, wst, wstop,
                 wsent, wanswered, wout, wbuf, weof, waiter, whs, cpc, creq, cresp,
                 thr, tret, connects, init_ret>>
  /\ UNCHANGED <<backendVars, frontVars, serverVars>>

\* close, lines 266-268: the wait of 5 on the subprocess that line 264
\* evaluated expired; terminate() and wait() go to what self.process is now.
WebCloseTimeout ==
  /\ close_pc = "waiting"
  /\ wst[close_rd] # "dead"
  /\ wstop' = [wstop EXCEPT ![web_process] = "terminated"]
  /\ close_pc' = "terminated"
  /\ close_rd' = web_process
  /\ UNCHANGED <<web_process, web_request_id, connected, client_lock, wst, wsent,
                 wanswered, wout, wbuf, weof, waiter, whs, cpc, creq, cresp, thr,
                 tret, connects, init_ret>>
  /\ UNCHANGED <<backendVars, frontVars, serverVars>>

\* ---- the subprocess and the loop's pipe callbacks (environment)
\* The request ids subprocess p received, in order.
WebRequests(p) == SelectSeq(wsent[p], LAMBDA id : id # 0)

\* The subprocess answers its oldest unanswered request with one line.
WebServe(p, shape) ==
  /\ wst[p] = "running"
  /\ wanswered[p] < Len(WebRequests(p))
  /\ wanswered' = [wanswered EXCEPT ![p] = @ + 1]
  /\ wout' = [wout EXCEPT ![p] = Append(@, [kind |-> shape, re |-> WebRequests(p)[wanswered[p] + 1]])]
  /\ UNCHANGED <<web_process, web_request_id, connected, client_lock, wst, wstop,
                 wsent, wbuf, weof, waiter, whs, cpc, creq, cresp, thr, tret,
                 connects, init_ret, close_pc>>
  /\ UNCHANGED <<close_rd, backendVars, frontVars, serverVars>>

\* The subprocess exits: on its own, on stdin EOF or on terminate().
WebExit(p) ==
  /\ wst[p] = "running"
  /\ wst' = [wst EXCEPT ![p] = "dead"]
  /\ UNCHANGED <<web_process, web_request_id, connected, client_lock, wstop, wsent,
                 wanswered, wout, wbuf, weof, waiter, whs, cpc, creq, cresp, thr,
                 tret, connects, init_ret, close_pc>>
  /\ UNCHANGED <<close_rd, backendVars, frontVars, serverVars>>

\* StreamReader._wakeup_waiter: the waiter is cleared and its task scheduled.
WakeupWaiter(p) ==
  /\ waiter' = [waiter EXCEPT ![p] = Nobody]
  /\ cpc' = [k \in WebTasks |-> IF k = waiter[p] THEN "woken" ELSE cpc[k]]

\* The loop reads the stdout pipe of p: feed_data buffers the lines and
\* wakes the waiter.
WebFeed(p) ==
  /\ wout[p] # <<>>
  /\ wbuf' = [wbuf EXCEPT ![p] = @ \o wout[p]]
  /\ wout' = [wout EXCEPT ![p] = <<>>]
  /\ WakeupWaiter(p)
  /\ UNCHANGED <<web_process, web_request_id, connected, client_lock, wst, wstop,
                 wsent, wanswered, weof, whs, creq, cresp, thr, tret, connects,
                 init_ret, close_pc>>
  /\ UNCHANGED <<close_rd, backendVars, frontVars, serverVars>>

\* The loop sees the stdout pipe of the exited p closed: feed_eof.
WebEof(p) ==
  /\ wst[p] = "dead"
  /\ wout[p] = <<>>
  /\ ~weof[p]
  /\ weof' = [weof EXCEPT ![p] = TRUE]
  /\ WakeupWaiter(p)
  /\ UNCHANGED <<web_process, web_request_id, connected, client_lock, wst, wstop,
                 wsent, wanswered, wout, wbuf, whs, creq, cresp, thr, tret,
                 connects, init_ret, close_pc>>
  /\ UNCHANGED <<close_rd, backendVars, frontVars, serverVars>>

NextWeb ==
  \/ StartInit
  \/ WebSpawnFail
  \/ WebSpawnDone
  \/ \E drain_raises \in BOOLEAN : ConnectResume(drain_raises)
  \/ WebSleepDone
  \/ \E t \in Threads : CallMcpAction(t)
  \/ \E t \in Threads : CoroStart(t)
  \/ \E t \in Threads : CoroResume(t)
  \/ \E t \in Threads : FutureResult(t)
  \/ \E t \in Threads : FutureTimeout(t)
  \/ WebClose
  \/ WebCloseWaitDone
  \/ WebCloseTimeout
  \/ \E p \in WebProcs, shape \in WebShapes : WebServe(p, shape)
  \/ \E p \in WebProcs : WebExit(p)
  \/ \E p \in WebProcs : WebFeed(p)
  \/ \E p \in WebProcs : WebEof(p)

SpecWeb == Init /\ [][NextWeb]_vars

\* C36: the connected flag of chatbot.py's client is true only while the
\* subprocess is alive and its handshake has completed: whenever connected
\* holds, self.process is a running subprocess for which connect returned
\* True, and it is false once close has run on that subprocess.
C36_ConnectedFlag ==
  /\ connected =>
       /\ web_process # 0
       /\ wst[web_process] = "running"
       /\ whs[web_process]
  /\ (close_pc # "idle" /\ close_rd = web_process) => ~connected

\* C37: initialize_mcp_client makes at most 3 connect attempts, returns True
\* at the first successful attempt without further attempts, returns False
\* after 3 failed attempts, and once it has returned at most one subprocess
\* spawned by its attempts is still alive.
C37_InitializeRetries ==
  LET n == Len(connects) IN
  /\ n <= max_retries
  /\ \A i \in 1..n : connects[i] => i = n /\ init_ret = <<TRUE>>
  /\ init_ret = <<TRUE>> => n > 0 /\ connects[n]
  /\ init_ret = <<FALSE>> <=> n = max_retries /\ \A i \in 1..n : ~connects[i]
  /\ init_ret # <<>> => Cardinality({p \in WebProcs : wst[p] = "running"}) <= 1

\* C32: for every interleaving of threads calling call_mcp_action, at most
\* one request of theirs is in flight on the subprocess pipes: while the
\* coroutine of one has written its request and not finished reading, no
\* later request has been written.  A caller that gets a response gets the
\* one to its own request, also after an earlier caller's wait on its future
\* timed out with its request still unanswered.
C32_OneInFlight ==
  /\ \A t, u \in Threads : cpc[t] \in {"reading", "woken"} => creq[u] <= creq[t]
  /\ \A t \in Threads : cresp[t].kind = "result" => cresp[t].re = creq[t]

=============================================================================
